---- MODULE Spec2Model ----
(***************************************************************************)
(* Model of the chat session manager (AIChatKernel), the progress /        *)
(* cancellation channel (ProgressCommManager) and the execution handler of *)
(* the kernel (AISdkLiteKernel.executeRequest) of ai-sdk-chat-kernel.      *)
(* One kernel instance with its one session manager is modelled.  Every    *)
(* await of the TypeScript code at which another handler can run is a      *)
(* separate step of the execution process.                                 *)
(***************************************************************************)
EXTENDS Integers, Sequences, FiniteSets, TLC

\* ------------------------------------------------------------------------
\* Bounds
\* ------------------------------------------------------------------------
MaxChunks == 2        \* events a stream holds
MaxRefCount == 1      \* references the pool holds per model id
MaxCloseTimers == 2   \* delayed channel closes outstanding at once
MaxPoolCalls == 6     \* acquire calls made on the pool directly
MaxReports == 3       \* reports handed to the progress channel

\* ------------------------------------------------------------------------
\* Names
\* ------------------------------------------------------------------------
NULL == "null"

CORE == "built-in-ai/core"
WEBLLM == "built-in-ai/webllm"
TRANSFORMERS == "built-in-ai/transformers"
OPENAI == "openai"

LocalProviders == {CORE, WEBLLM, TRANSFORMERS}
\* providers a user names in %chat provider, and in the settings
ConfigProviders == {TRANSFORMERS, OPENAI}
SettingsProviders == {OPENAI}
SettingsModels == {}
SettingsKeys == {}
\* what the browser supports: the Prompt API asks most of it, Transformers.js
\* least
SupportProfiles ==
  {f \in [LocalProviders -> BOOLEAN] :
     (f[CORE] => f[WEBLLM]) /\ (f[WEBLLM] => f[TRANSFORMERS])}

MODEL_TEXT == "text"
MODEL_TRANSFORMERS == "HuggingFaceTB/SmolLM2-360M-Instruct"
MODEL_WEBLLM == "SmolLM2-360M-Instruct-q4f16_1-MLC"
MODEL_OPENAI == "gpt-4o-mini"
\* a model name a user gives that is no provider's default
MODEL_X == "X"
UserModels == {MODEL_X}

\* model ids the shared WebLLM pool is asked for
PoolModelIds == {MODEL_WEBLLM}

Keys == {"k1"}

\* texts of download-progress reports
ProgressTexts == {"Downloading", "Ready"}

\* the auto-select state of models.ts as federation.ts documents it
DEFAULT_PROVIDER == NULL

\* a model handle: what createProvider built it from (only a cloud handle
\* holds the credential)
NoModel == [provider |-> NULL, model |-> NULL, apiKey |-> NULL]
NoError == [name |-> NULL, kind |-> "none", provider |-> NULL,
            model |-> NULL, errors |-> << >>, hint |-> NULL]
NoReport == [status |-> NULL, message |-> NULL]
\* a Map with no entries
EmptyCache == [p \in {} |-> FALSE]
\* no call made yet
NoCall == [called |-> FALSE]
NoPoolOps == [id \in PoolModelIds |-> [acquires |-> 0, releases |-> 0, teardowns |-> 0]]

\* ------------------------------------------------------------------------
\* Pure functions of models.ts / providers.ts
\* ------------------------------------------------------------------------
requiresApiKey(p) == p \in {"openai", "anthropic", "google"}

getDefaultModel(p) ==
  CASE p = CORE -> MODEL_TEXT
    [] p = TRANSFORMERS -> MODEL_TRANSFORMERS
    [] p = WEBLLM -> MODEL_WEBLLM
    [] p = OPENAI -> MODEL_OPENAI
    [] OTHER -> "default"

fallbackOrder == << CORE, WEBLLM, TRANSFORMERS >>

\* Array.prototype.indexOf: first index (0-based) or -1
indexOf(arr, x) ==
  IF \E i \in 1..Len(arr) : arr[i] = x
  THEN (CHOOSE i \in 1..Len(arr) : arr[i] = x /\ \A j \in 1..(i - 1) : arr[j] # x) - 1
  ELSE -1

getNextFallbackProvider_skips(failedProvider) ==
  LET currentIndex == indexOf(fallbackOrder, failedProvider)
  IN IF currentIndex >= 0 /\ currentIndex < Len(fallbackOrder) - 2
     THEN fallbackOrder[currentIndex + 3]
     ELSE NULL

getNextFallbackProvider_retries(failedProvider) ==
  LET currentIndex == indexOf(fallbackOrder, failedProvider)
  IN IF currentIndex >= 0 /\ currentIndex < Len(fallbackOrder) - 1
     THEN fallbackOrder[currentIndex + 1]
     ELSE NULL

getNextFallbackProvider_wraps(failedProvider) ==
  LET currentIndex == indexOf(fallbackOrder, failedProvider)
  IN IF currentIndex >= 0
     THEN fallbackOrder[((currentIndex + 1) % Len(fallbackOrder)) + 1]
     ELSE NULL

getNextFallbackProvider(failedProvider) ==
  LET currentIndex == indexOf(fallbackOrder, failedProvider)
  IN IF currentIndex >= 0 /\ currentIndex < Len(fallbackOrder) - 1
     THEN fallbackOrder[currentIndex + 2]
     ELSE NULL

\* autoSelectLocalProvider over the (cached) support results
autoSelectLocalProvider_readme_order(support) ==
  IF support[CORE] THEN CORE
  ELSE IF support[TRANSFORMERS] THEN TRANSFORMERS
  ELSE IF support[WEBLLM] THEN WEBLLM
  ELSE NULL

autoSelectLocalProvider(support) ==
  IF support[CORE] THEN CORE
  ELSE IF support[WEBLLM] THEN WEBLLM
  ELSE IF support[TRANSFORMERS] THEN TRANSFORMERS
  ELSE NULL

\* ------------------------------------------------------------------------
\* State
\* ------------------------------------------------------------------------
VARIABLES
  \* AIChatKernel
  pendingProvider, pendingModel, pendingApiKey,
  activeProvider, activeModel, languageModel, sessionInitialized,
  activeWebLLMModelId,
  \* module-level settings of federation.ts
  settingsDefaultProvider, settingsDefaultModel, settingsApiKey,
  \* providers.ts: what the browser supports, and the shared instance pool
  \* with the calls made on it
  browserSupport, pool, poolOps,
  \* the reports handed to the progress emitter and those the consumer got
  reportsEmitted, reportsDelivered,
  \* providers.ts: the support cache, the probes run since it was cleared and
  \* the last results of checkProviderSupport, autoSelectLocalProvider and
  \* getNextFallbackProvider
  providerSupportCache, probeRuns, lastSupport, selected, fallbackCall,
  \* AIChatKernel tool packs: the registry, and the last call on it with the
  \* last value each of its operations returned
  enabledToolPacks, toolPacksCache, toolCall, enableResult, disableResult,
  enabledTools, listed,
  \* wiki-query chunkContent: its arguments, the loop variable i, the chunks
  \* pushed so far and where the call stands
  wikitext, chunkSize, chunkI, chunks, chunkPc,
  \* executeRequest, the lines of a cell: the code, the lines still to
  \* visit, the %chat commands applied so far, magicResults, nonMagicLines,
  \* the prompt passed to send and where the cell stands
  cellCode, cellLines, magicApplied, magicResults, nonMagicLines, promptSent,
  cellPc,
  \* executeRequest seen from the cancellation token: whether an execution
  \* is running, and whether the token was cancelled when it began
  tokenPc, cancelledBefore,
  \* ProgressCommManager
  commId, isOpen, isCancelled, frontendComms,
  \* AISdkLiteKernel
  abortController, signalAborted, closeTimers,
  \* the execution in flight: position and locals of executeRequest / send /
  \* createSession / tryCreateSessionWithProvider
  pc, autoMode, providerName, modelName, apiKey, errors,
  lastProgressMessage, remaining,
  \* what the execution handed to its callers
  reply, thrown, forwarded, delivered,
  \* history
  lastCall, sendAfter, sendBuilds, attempted, preState

mgrVars == << pendingProvider, pendingModel, pendingApiKey, activeProvider,
              activeModel, languageModel, sessionInitialized,
              activeWebLLMModelId >>
settingsVars == << settingsDefaultProvider, settingsDefaultModel, settingsApiKey >>
reportVars == << reportsEmitted, reportsDelivered >>
\* variables that only the specifications of single components change
probeVars == << providerSupportCache, probeRuns, lastSupport, selected,
               fallbackCall >>
toolVars == << enabledToolPacks, toolPacksCache, toolCall, enableResult,
              disableResult, enabledTools, listed >>
chunkVars == << wikitext, chunkSize, chunkI, chunks, chunkPc >>
cellVars == << cellCode, cellLines, magicApplied, magicResults,
              nonMagicLines, promptSent, cellPc >>
tokenVars == << tokenPc, cancelledBefore >>
sideVars == << poolOps, reportVars, probeVars, toolVars, chunkVars, cellVars,
              tokenVars >>
envVars == << browserSupport, pool, sideVars >>
commVars == << commId, isOpen, isCancelled, frontendComms >>
kernelVars == << abortController, signalAborted, closeTimers >>
localVars == << pc, autoMode, providerName, modelName, apiKey, errors,
                lastProgressMessage, remaining >>
outVars == << reply, thrown, forwarded, delivered >>
histVars == << lastCall, sendAfter, sendBuilds, attempted, preState >>

vars == << mgrVars, settingsVars, envVars, commVars, kernelVars, localVars,
           outVars, histVars >>

\* ------------------------------------------------------------------------
\* Helpers of federation.ts
\* ------------------------------------------------------------------------
getDefaultProviderFromSettings ==
  IF settingsDefaultProvider # NULL THEN settingsDefaultProvider
  ELSE DEFAULT_PROVIDER

getApiKeyFromSettings == settingsApiKey

getDefaultModelFromSettings(p) ==
  IF settingsDefaultModel # NULL /\ p = getDefaultProviderFromSettings
  THEN settingsDefaultModel
  ELSE getDefaultModel(p)

getApiKey ==
  IF pendingApiKey # NULL THEN pendingApiKey ELSE getApiKeyFromSettings

getProviderToUse ==
  IF pendingProvider # NULL THEN pendingProvider
  ELSE getDefaultProviderFromSettings

isAutoSelectMode_local_too ==
  \/ pendingProvider = NULL /\ getDefaultProviderFromSettings = NULL
  \/ getProviderToUse \in LocalProviders

isAutoSelectMode ==
  pendingProvider = NULL /\ getDefaultProviderFromSettings = NULL

getModelToUse(p) ==
  IF pendingModel # NULL THEN pendingModel
  ELSE IF pendingProvider # NULL THEN getDefaultModel(p)
  ELSE getDefaultModelFromSettings(p)

needsSessionRefresh_sticky_lost ==
  IF ~sessionInitialized THEN TRUE
  ELSE IF pendingModel # NULL /\ pendingModel # activeModel THEN TRUE
  ELSE getProviderToUse # activeProvider

needsSessionRefresh ==
  IF ~sessionInitialized THEN TRUE
  ELSE IF pendingModel # NULL /\ pendingModel # activeModel THEN TRUE
  ELSE IF getProviderToUse = NULL /\ activeProvider # NULL THEN FALSE
  ELSE IF getProviderToUse # NULL /\ getProviderToUse # activeProvider THEN TRUE
  ELSE FALSE

\* ------------------------------------------------------------------------
\* Shared instance pool (providers.ts: releaseWebLLMInstance and the
\* acquisition inside createProvider)
\* ------------------------------------------------------------------------
acquireWebLLMInstance(p, id) == [p EXCEPT ![id] = @ + 1]

releaseWebLLMInstance_keeps_last(p, id) ==
  [p EXCEPT ![id] = IF @ > 1 THEN @ - 1 ELSE @]

releaseWebLLMInstance(p, id) == [p EXCEPT ![id] = IF @ > 0 THEN @ - 1 ELSE 0]

\* the pool after AIChatKernel.releaseSharedResources
releaseSharedResources ==
  IF activeWebLLMModelId # NULL
  THEN releaseWebLLMInstance(pool, activeWebLLMModelId)
  ELSE pool

\* ------------------------------------------------------------------------
\* Errors the session manager throws
\* ------------------------------------------------------------------------
ApiKeyRequiredError(p) ==
  [name |-> "Error", kind |-> "ApiKeyRequired", provider |-> p, model |-> NULL,
   errors |-> << >>, hint |-> "%chat key"]

CreateFailedError(p, m, reason) ==
  [name |-> "Error", kind |-> "CreateFailed", provider |-> p, model |-> m,
   errors |-> << [provider |-> p, reason |-> reason] >>, hint |-> NULL]

NoLocalProviderError ==
  [name |-> "Error", kind |-> "NoLocalProvider", provider |-> NULL,
   model |-> NULL, errors |-> << >>, hint |-> "%chat provider openai --key"]

AllFailedError(errs) ==
  [name |-> "Error", kind |-> "AllFailed", provider |-> NULL, model |-> NULL,
   errors |-> errs, hint |-> "%chat provider openai --key"]

NotInitializedError ==
  [name |-> "Error", kind |-> "NotInitialized", provider |-> NULL,
   model |-> NULL, errors |-> << >>, hint |-> NULL]

GenerationError ==
  [name |-> "Error", kind |-> "Generation", provider |-> NULL, model |-> NULL,
   errors |-> << >>, hint |-> NULL]

\* DOMException('Operation cancelled by user', 'AbortError') of checkCancelled
CancelledError ==
  [name |-> "AbortError", kind |-> "Cancelled", provider |-> NULL,
   model |-> NULL, errors |-> << >>, hint |-> NULL]

\* DOMException('Aborted', 'AbortError') of send
AbortedError ==
  [name |-> "AbortError", kind |-> "Aborted", provider |-> NULL,
   model |-> NULL, errors |-> << >>, hint |-> NULL]

\* ------------------------------------------------------------------------
\* Initial state: a kernel that has executed nothing
\* ------------------------------------------------------------------------
MgrSnapshot ==
  [sessionInitialized |-> sessionInitialized, languageModel |-> languageModel,
   activeProvider |-> activeProvider, activeModel |-> activeModel,
   pendingProvider |-> pendingProvider, pendingModel |-> pendingModel,
   pendingApiKey |-> pendingApiKey]

NoSnapshot ==
  [sessionInitialized |-> FALSE, languageModel |-> NoModel,
   activeProvider |-> NULL, activeModel |-> NULL,
   pendingProvider |-> NULL, pendingModel |-> NULL, pendingApiKey |-> NULL]

Init ==
  /\ pendingProvider = NULL /\ pendingModel = NULL /\ pendingApiKey = NULL
  /\ activeProvider = NULL /\ activeModel = NULL /\ languageModel = NoModel
  /\ sessionInitialized = FALSE /\ activeWebLLMModelId = NULL
  /\ settingsDefaultProvider = NULL /\ settingsDefaultModel = NULL
  /\ settingsApiKey = NULL
  /\ browserSupport \in SupportProfiles
  /\ pool = [id \in PoolModelIds |-> 0]
  /\ poolOps = NoPoolOps
  /\ reportsEmitted = << >> /\ reportsDelivered = << >>
  /\ providerSupportCache = EmptyCache
  /\ probeRuns = [p \in LocalProviders |-> 0]
  /\ lastSupport = NoCall /\ selected = NoCall /\ fallbackCall = NoCall
  /\ enabledToolPacks = << >> /\ toolPacksCache = EmptyCache
  /\ toolCall = NoCall /\ enableResult = NoCall /\ disableResult = NoCall
  /\ enabledTools = NoCall /\ listed = NoCall
  /\ wikitext = << >> /\ chunkSize = 0 /\ chunkI = 0 /\ chunks = << >>
  /\ chunkPc = "idle"
  /\ cellCode = << >> /\ cellLines = << >> /\ magicApplied = << >>
  /\ magicResults = << >> /\ nonMagicLines = << >>
  /\ promptSent = NoCall /\ cellPc = "idle"
  /\ tokenPc = "idle" /\ cancelledBefore = FALSE
  /\ commId = NULL /\ isOpen = FALSE /\ isCancelled = FALSE
  /\ frontendComms = 0
  /\ abortController = NULL /\ signalAborted = FALSE /\ closeTimers = 0
  /\ pc = "idle" /\ autoMode = FALSE /\ providerName = NULL /\ modelName = NULL
  /\ apiKey = NULL /\ errors = << >> /\ lastProgressMessage = ""
  /\ remaining = 0
  /\ reply = "none" /\ thrown = NoError /\ forwarded = 0 /\ delivered = NoReport
  /\ lastCall = "none" /\ sendAfter = "none" /\ sendBuilds = 0
  /\ attempted = << >> /\ preState = NoSnapshot

\* what a configuration call leaves of the last execution's record
ForgetExecution ==
  /\ reply' = "none" /\ thrown' = NoError /\ forwarded' = 0
  /\ delivered' = NoReport
  /\ sendBuilds' = 0 /\ attempted' = << >> /\ preState' = NoSnapshot
  /\ sendAfter' = "none"
  /\ autoMode' = FALSE /\ providerName' = NULL /\ modelName' = NULL
  /\ apiKey' = NULL /\ errors' = << >> /\ lastProgressMessage' = ""
  /\ remaining' = 0
  /\ pc' = pc

\* ------------------------------------------------------------------------
\* Configuration calls of AIChatKernel
\* ------------------------------------------------------------------------
setApiKey_clears_model(key) ==
  /\ pendingApiKey' = key
  /\ pendingModel' = NULL
  /\ IF sessionInitialized
     THEN /\ pool' = releaseSharedResources
          /\ activeWebLLMModelId' = NULL
          /\ sessionInitialized' = FALSE
          /\ languageModel' = NoModel
     ELSE UNCHANGED << pool, activeWebLLMModelId, sessionInitialized, languageModel >>
  /\ UNCHANGED << pendingProvider, activeProvider, activeModel >>

setApiKey(key) ==
  /\ pendingApiKey' = key
  /\ IF sessionInitialized
     THEN /\ pool' = releaseSharedResources
          /\ activeWebLLMModelId' = NULL
          /\ sessionInitialized' = FALSE
          /\ languageModel' = NoModel
     ELSE UNCHANGED << pool, activeWebLLMModelId, sessionInitialized, languageModel >>
  /\ UNCHANGED << pendingProvider, pendingModel, activeProvider, activeModel >>

setProvider_keeps_reference(p, m, key) ==
  /\ pendingProvider' = p
  /\ pendingModel' = m
  /\ pendingApiKey' = IF key # NULL THEN key ELSE pendingApiKey
  /\ pool' = pool
  /\ activeWebLLMModelId' = NULL
  /\ sessionInitialized' = FALSE
  /\ languageModel' = NoModel
  /\ UNCHANGED << activeProvider, activeModel >>

setProvider(p, m, key) ==
  /\ pendingProvider' = p
  /\ pendingModel' = m
  /\ pendingApiKey' = IF key # NULL THEN key ELSE pendingApiKey
  /\ pool' = releaseSharedResources
  /\ activeWebLLMModelId' = NULL
  /\ sessionInitialized' = FALSE
  /\ languageModel' = NoModel
  /\ UNCHANGED << activeProvider, activeModel >>

setModel_keeps_tracking(m) ==
  /\ pendingModel' = m
  /\ pool' = releaseSharedResources
  /\ sessionInitialized' = FALSE
  /\ languageModel' = NoModel
  /\ UNCHANGED << pendingProvider, pendingApiKey, activeProvider, activeModel,
                  activeWebLLMModelId >>

setModel_keeps_handle(m) ==
  /\ pendingModel' = m
  /\ pool' = releaseSharedResources
  /\ activeWebLLMModelId' = NULL
  /\ sessionInitialized' = FALSE
  /\ UNCHANGED << pendingProvider, pendingApiKey, activeProvider, activeModel,
                  languageModel >>

setModel_keeps_same(m) ==
  /\ pendingModel' = m
  /\ IF m = activeModel
     THEN UNCHANGED << pool, activeWebLLMModelId, sessionInitialized, languageModel >>
     ELSE /\ pool' = releaseSharedResources
          /\ activeWebLLMModelId' = NULL
          /\ sessionInitialized' = FALSE
          /\ languageModel' = NoModel
  /\ UNCHANGED << pendingProvider, pendingApiKey, activeProvider, activeModel >>

setModel(m) ==
  /\ pendingModel' = m
  /\ pool' = releaseSharedResources
  /\ activeWebLLMModelId' = NULL
  /\ sessionInitialized' = FALSE
  /\ languageModel' = NoModel
  /\ UNCHANGED << pendingProvider, pendingApiKey, activeProvider, activeModel >>

shutdown_keeps_tracking ==
  /\ pool' = releaseSharedResources
  /\ languageModel' = NoModel
  /\ sessionInitialized' = FALSE
  /\ UNCHANGED << pendingProvider, pendingModel, pendingApiKey, activeProvider,
                  activeModel, activeWebLLMModelId >>

shutdown ==
  /\ pool' = releaseSharedResources
  /\ activeWebLLMModelId' = NULL
  /\ languageModel' = NoModel
  /\ sessionInitialized' = FALSE
  /\ UNCHANGED << pendingProvider, pendingModel, pendingApiKey, activeProvider,
                  activeModel >>

\* the settings plugin's updateSettings: a falsy provider or model keeps the
\* old value, a falsy key clears it
updateSettings(p, m, key) ==
  /\ settingsDefaultProvider' = IF p # NULL THEN p ELSE settingsDefaultProvider
  /\ settingsDefaultModel' = IF m # NULL THEN m ELSE settingsDefaultModel
  /\ settingsApiKey' = key

\* The calls as the sequential caller of the manager issues them: between
\* executions.
SetApiKey ==
  /\ pc = "idle"
  /\ \E key \in Keys : setApiKey(key)
  /\ lastCall' = "setApiKey"
  /\ ForgetExecution
  /\ UNCHANGED << settingsVars, browserSupport, sideVars, commVars, kernelVars >>

SetProvider ==
  /\ pc = "idle"
  /\ \E p \in ConfigProviders, key \in Keys \cup {NULL} : setProvider(p, NULL, key)
  /\ lastCall' = "setProvider"
  /\ ForgetExecution
  /\ UNCHANGED << settingsVars, browserSupport, sideVars, commVars, kernelVars >>

SetModel ==
  /\ pc = "idle"
  /\ \E m \in UserModels : setModel(m)
  /\ lastCall' = "setModel"
  /\ ForgetExecution
  /\ UNCHANGED << settingsVars, browserSupport, sideVars, commVars, kernelVars >>

Shutdown ==
  /\ pc = "idle"
  /\ shutdown
  /\ lastCall' = "shutdown"
  /\ ForgetExecution
  /\ UNCHANGED << settingsVars, browserSupport, sideVars, commVars, kernelVars >>

UpdateSettings ==
  /\ pc = "idle"
  /\ \E p \in SettingsProviders \cup {NULL}, m \in SettingsModels \cup {NULL},
        key \in SettingsKeys \cup {NULL} :
       /\ updateSettings(p, m, key)
       /\ settingsVars' # settingsVars
  /\ lastCall' = "settings"
  /\ ForgetExecution
  /\ UNCHANGED << mgrVars, envVars, commVars, kernelVars >>

\* ------------------------------------------------------------------------
\* ProgressCommManager
\* ------------------------------------------------------------------------
\* the report the consumer holds after sendProgress(message, _, status)
\* ProgressCommManager.open: an open channel is only reset; otherwise a
\* comm_open goes to the frontend under a new comm id
open_always_opens ==
  [commId |-> "progress", isOpen |-> TRUE, isCancelled |-> FALSE,
   frontendComms |-> frontendComms + 1]

open_keeps_state ==
  IF isOpen
  THEN [commId |-> commId, isOpen |-> TRUE, isCancelled |-> isCancelled,
        frontendComms |-> frontendComms]
  ELSE [commId |-> "progress", isOpen |-> TRUE, isCancelled |-> FALSE,
        frontendComms |-> frontendComms + 1]

open ==
  IF isOpen
  THEN [commId |-> commId, isOpen |-> TRUE, isCancelled |-> FALSE,
        frontendComms |-> frontendComms]
  ELSE [commId |-> "progress", isOpen |-> TRUE, isCancelled |-> FALSE,
        frontendComms |-> frontendComms + 1]

\* ProgressCommManager.close: a comm_close goes to the frontend unless the
\* channel is not open
close ==
  IF ~isOpen \/ commId = NULL
  THEN [commId |-> commId, isOpen |-> isOpen, frontendComms |-> frontendComms]
  ELSE [commId |-> NULL, isOpen |-> FALSE, frontendComms |-> frontendComms - 1]

\* ProgressCommManager.sendProgress: the comm_msg it hands to
\* kernel.handleComm, none when the channel is not open
handleComm(message, status) ==
  IF ~isOpen \/ commId = NULL THEN << >>
  ELSE << [status |-> status, message |-> message] >>

\* the report the frontend has after sendProgress(message, _, status)
sendProgress(message, status) ==
  IF handleComm(message, status) = << >> THEN delivered
  ELSE handleComm(message, status)[1]

\* ------------------------------------------------------------------------
\* AISdkLiteKernel.executeRequest: how an execution ends (the return or the
\* catch block, then the finally block).  The locals of the execution are
\* dead from then on.
\* ------------------------------------------------------------------------
\* the message test of the catch block alone: no message of the errors above
\* contains 'aborted'
isAbortError_by_message(err) == err.kind = "aborted"

isAbortError(err) == err.name = "AbortError"

Finish(status, err) ==
  /\ pc' = "idle"
  /\ reply' = status
  /\ thrown' = err
  /\ delivered' = CASE status = "ok" -> sendProgress("Ready", "complete")
                    [] status = "abort" -> sendProgress("Cancelled", "cancelled")
                    [] OTHER -> sendProgress("Error", "error")
  /\ abortController' = NULL
  /\ signalAborted' = FALSE
  /\ closeTimers' = closeTimers + 1
  /\ autoMode' = FALSE /\ providerName' = NULL /\ modelName' = NULL
  /\ apiKey' = NULL /\ errors' = << >> /\ lastProgressMessage' = ""
  /\ remaining' = 0 /\ forwarded' = 0
  /\ preState' = NoSnapshot /\ sendAfter' = "none"

\* an error thrown out of chat.send reaches the catch block of executeRequest
Throw(err) == Finish(IF isAbortError(err) THEN "abort" ELSE "error", err)

\* what a step of a running execution leaves alone unless it says otherwise
RunningKernel ==
  UNCHANGED << reply, thrown, abortController, signalAborted, closeTimers,
               autoMode, apiKey, preState, sendAfter >>

\* executeRequest for a cell that holds a prompt, up to the first await of
\* chat.send
ExecuteRequest ==
  /\ pc = "idle"
  /\ closeTimers < MaxCloseTimers
  /\ abortController' = "live"
  /\ signalAborted' = FALSE
  /\ isOpen' = open.isOpen
  /\ commId' = open.commId
  /\ isCancelled' = open.isCancelled
  /\ frontendComms' = open.frontendComms
  /\ reply' = "none" /\ thrown' = NoError /\ forwarded' = 0
  /\ delivered' = NoReport
  /\ apiKey' = getApiKey
  /\ lastProgressMessage' = ""
  /\ errors' = << >> /\ remaining' = 0
  /\ attempted' = << >> /\ preState' = MgrSnapshot
  /\ lastCall' = "send" /\ sendAfter' = lastCall
  /\ IF needsSessionRefresh
     THEN /\ sendBuilds' = 1
          /\ IF getProviderToUse # NULL /\ ~isAutoSelectMode
             THEN /\ autoMode' = FALSE
                  /\ providerName' = getProviderToUse
                  /\ modelName' = getModelToUse(getProviderToUse)
                  /\ pc' = "try"
             ELSE /\ autoMode' = TRUE
                  /\ providerName' = NULL
                  /\ modelName' = NULL
                  /\ pc' = "select"
     ELSE /\ sendBuilds' = 0
          /\ autoMode' = FALSE /\ providerName' = NULL /\ modelName' = NULL
          /\ pc' = "dispatch"
  /\ closeTimers' = closeTimers
  /\ UNCHANGED << mgrVars, settingsVars, envVars >>

\* createSession, auto-select branch: the initial candidate
AutoSelect ==
  /\ pc = "select"
  /\ LET p == autoSelectLocalProvider(browserSupport)
     IN IF p = NULL
        THEN Throw(NoLocalProviderError)
        ELSE IF isCancelled
        THEN Throw(CancelledError)
        ELSE /\ providerName' = p
             /\ modelName' = getDefaultModel(p)
             /\ pc' = "try"
             /\ RunningKernel
             /\ UNCHANGED << delivered, errors, lastProgressMessage,
                             remaining, forwarded >>
  /\ UNCHANGED << mgrVars, settingsVars, envVars, commVars, lastCall,
                  sendBuilds, attempted >>

\* createSession, explicit branch: the credential check; then
\* tryCreateSessionWithProvider up to its await of createProvider
TryProvider ==
  /\ pc = "try"
  /\ IF ~autoMode /\ apiKey = NULL /\ requiresApiKey(providerName)
     THEN /\ Throw(ApiKeyRequiredError(providerName))
          /\ UNCHANGED << pool, activeWebLLMModelId, attempted >>
     ELSE IF isCancelled
     THEN /\ Throw(CancelledError)
          /\ UNCHANGED << pool, activeWebLLMModelId, attempted >>
     ELSE /\ pool' = releaseSharedResources
          /\ activeWebLLMModelId' = NULL
          /\ attempted' = Append(attempted, providerName)
          /\ pc' = "creating"
          /\ RunningKernel
          /\ UNCHANGED << delivered, providerName, modelName, errors,
                          lastProgressMessage, remaining, forwarded >>
  /\ UNCHANGED << pendingProvider, pendingModel, pendingApiKey, activeProvider,
                  activeModel, languageModel, sessionInitialized,
                  settingsVars, browserSupport, sideVars, commVars, lastCall, sendBuilds >>

\* the handle createProvider returns
createProvider(p, m, key) ==
  [provider |-> p, model |-> m,
   apiKey |-> IF requiresApiKey(p) THEN key ELSE NULL]

\* createProvider can get past its support check
Creatable(p) == p \in LocalProviders => browserSupport[p]

\* createSession.progressCallback, called by the download of a local provider
\* the last message it keeps and the reports it passes to sendProgress
progressCallback_no_dedup(text) ==
  [lastProgressMessage |-> text,
   reports |-> << [status |-> "loading", message |-> text] >>]

progressCallback(text) ==
  IF text = lastProgressMessage
  THEN [lastProgressMessage |-> lastProgressMessage, reports |-> << >>]
  ELSE [lastProgressMessage |-> text,
        reports |-> << [status |-> "loading", message |-> text] >>]

Progress ==
  /\ pc = "creating"
  /\ providerName \in LocalProviders /\ Creatable(providerName)
  /\ \E text \in ProgressTexts :
       LET r == progressCallback(text)
       IN /\ lastProgressMessage' = r.lastProgressMessage
          /\ delivered' = IF r.reports = << >> THEN delivered
                          ELSE sendProgress(r.reports[1].message, r.reports[1].status)
  /\ RunningKernel
  /\ UNCHANGED << pc, providerName, modelName, errors, remaining, forwarded >>
  /\ UNCHANGED << mgrVars, settingsVars, envVars, commVars, lastCall,
                  sendBuilds, attempted >>

\* createProvider throws; tryCreateSessionWithProvider reports the failure
\* and createSession throws (explicit) or falls back (auto-select)
CreateFails ==
  /\ pc = "creating"
  /\ LET reason == IF Creatable(providerName) THEN "failed" ELSE "not available"
         errs == Append(errors, [provider |-> providerName, reason |-> reason])
         nextProvider == getNextFallbackProvider(providerName)
     IN IF ~autoMode
        THEN Throw(CreateFailedError(providerName, modelName, reason))
        ELSE IF nextProvider = NULL
        THEN Throw(AllFailedError(errs))
        ELSE IF isCancelled
        THEN Throw(CancelledError)
        ELSE /\ errors' = errs
             /\ providerName' = nextProvider
             /\ modelName' = getDefaultModel(nextProvider)
             /\ pc' = "try"
             /\ RunningKernel
             /\ UNCHANGED << delivered, lastProgressMessage, remaining,
                             forwarded >>
  /\ UNCHANGED << mgrVars, settingsVars, envVars, commVars, lastCall,
                  sendBuilds, attempted >>

\* send after the session block: the handle check and the abort check before
\* dispatch, then streamText
Dispatch(lm) ==
  IF lm = NoModel
  THEN Throw(NotInitializedError)
  ELSE IF signalAborted
  THEN Throw(AbortedError)
  ELSE /\ pc' = "streaming"
       /\ remaining' \in 0..MaxChunks
       /\ lastProgressMessage' = ""
       /\ RunningKernel
       /\ UNCHANGED << delivered, providerName, modelName, errors, forwarded >>

\* createProvider returns: the rest of tryCreateSessionWithProvider, and of
\* send up to the stream
CreateReturns ==
  /\ pc = "creating"
  /\ Creatable(providerName)
  /\ providerName = WEBLLM => pool[modelName] < MaxRefCount
  /\ pool' = IF providerName = WEBLLM
             THEN acquireWebLLMInstance(pool, modelName) ELSE pool
  /\ IF isCancelled
     THEN /\ Throw(CancelledError)
          /\ UNCHANGED << activeProvider, activeModel, languageModel,
                          sessionInitialized, activeWebLLMModelId >>
     ELSE /\ languageModel' = createProvider(providerName, modelName, apiKey)
          /\ activeProvider' = providerName
          /\ activeModel' = modelName
          /\ sessionInitialized' = TRUE
          /\ activeWebLLMModelId' = IF providerName = WEBLLM THEN modelName
                                    ELSE activeWebLLMModelId
          /\ Dispatch(createProvider(providerName, modelName, apiKey))
  /\ UNCHANGED << pendingProvider, pendingModel, pendingApiKey, settingsVars,
                  browserSupport, sideVars, commVars, lastCall, sendBuilds, attempted >>

\* send on a session that needed no refresh
DispatchPrompt ==
  /\ pc = "dispatch"
  /\ Dispatch(languageModel)
  /\ UNCHANGED << mgrVars, settingsVars, envVars, commVars, lastCall,
                  sendBuilds, attempted >>

\* ------------------------------------------------------------------------
\* The stream loop of send
\* ------------------------------------------------------------------------
StreamEventKinds == {"text-delta", "empty-delta", "tool-call", "tool-result"}

\* chunks the loop hands to onChunk for one event
onChunkCalls(kind) == IF kind = "empty-delta" THEN 0 ELSE 1

streamPart_unchecked(kind) ==
  /\ forwarded' = forwarded + onChunkCalls(kind)
  /\ remaining' = remaining - 1
  /\ RunningKernel
  /\ UNCHANGED << pc, delivered, providerName, modelName, errors,
                  lastProgressMessage >>

streamPart(kind) ==
  IF signalAborted
  THEN Throw(AbortedError)
  ELSE /\ forwarded' = forwarded + onChunkCalls(kind)
       /\ remaining' = remaining - 1
       /\ RunningKernel
       /\ UNCHANGED << pc, delivered, providerName, modelName, errors,
                       lastProgressMessage >>

StreamEvent ==
  /\ pc = "streaming"
  /\ remaining > 0
  /\ \E kind \in StreamEventKinds : streamPart(kind)
  /\ UNCHANGED << mgrVars, settingsVars, envVars, commVars, lastCall,
                  sendBuilds, attempted >>

\* the stream ends: send returns fullText
StreamEnd ==
  /\ pc = "streaming"
  /\ remaining = 0
  /\ Finish("ok", NoError)
  /\ UNCHANGED << mgrVars, settingsVars, envVars, commVars, lastCall,
                  sendBuilds, attempted >>

\* the model handle raises while streaming: a generation failure, or the
\* handle's own AbortError once the signal is aborted
StreamThrows ==
  /\ pc = "streaming"
  /\ \E err \in {GenerationError} \cup
                (IF signalAborted THEN {AbortedError} ELSE {}) : Throw(err)
  /\ UNCHANGED << mgrVars, settingsVars, envVars, commVars, lastCall,
                  sendBuilds, attempted >>

\* ------------------------------------------------------------------------
\* Handlers that run between the steps of an execution
\* ------------------------------------------------------------------------
\* commMsg with a cancel for the progress channel's comm id
\* comm ids a message from the frontend can carry: the id of the channel
\* that is open, or the id of a channel closed earlier (open makes a new id
\* each time, so an old id never equals the current one)
MsgCommIds == {"progress", "progress-old"}
MsgTypes == {"cancel", "ping"}

\* ProgressCommManager.handleMessage: whether the message was a cancel for
\* this channel, and the cancellation flag after it
handleMessage_any_comm(id, type) ==
  IF type = "cancel"
  THEN [handled |-> TRUE, isCancelled |-> TRUE]
  ELSE [handled |-> FALSE, isCancelled |-> isCancelled]

handleMessage(id, type) ==
  IF id # commId
  THEN [handled |-> FALSE, isCancelled |-> isCancelled]
  ELSE IF type = "cancel"
  THEN [handled |-> TRUE, isCancelled |-> TRUE]
  ELSE [handled |-> FALSE, isCancelled |-> isCancelled]

\* AISdkLiteKernel.commMsg
CommMsg ==
  /\ \E id \in MsgCommIds, type \in MsgTypes :
       LET r == handleMessage(id, type)
       IN /\ isCancelled' = r.isCancelled
          /\ signalAborted' = IF r.handled /\ abortController # NULL
                              THEN TRUE ELSE signalAborted
  \* a message that changes nothing is no step
  /\ << isCancelled', signalAborted' >> # << isCancelled, signalAborted >>
  /\ UNCHANGED << mgrVars, settingsVars, envVars, commId, isOpen, frontendComms,
                  abortController, closeTimers, localVars, outVars, histVars >>

InterruptRequest ==
  /\ abortController # NULL
  /\ signalAborted' = TRUE
  /\ abortController' = NULL
  /\ UNCHANGED << mgrVars, settingsVars, envVars, commVars, closeTimers,
                  localVars, outVars, histVars >>

\* the setTimeout of the finally block fires: progressComm.close
CloseTimer ==
  /\ closeTimers > 0
  /\ closeTimers' = closeTimers - 1
  /\ isOpen' = close.isOpen
  /\ commId' = close.commId
  /\ frontendComms' = close.frontendComms
  /\ UNCHANGED << mgrVars, settingsVars, envVars, isCancelled, abortController,
                  signalAborted, localVars, outVars, histVars >>

\* ------------------------------------------------------------------------
\* Specification: the manager's calls issued one after another, with cancel,
\* interrupt and the delayed close arriving at any time
\* ------------------------------------------------------------------------
Next ==
  \/ SetApiKey
  \/ SetProvider
  \/ SetModel
  \/ Shutdown
  \/ UpdateSettings
  \/ ExecuteRequest
  \/ AutoSelect
  \/ TryProvider
  \/ Progress
  \/ CreateFails
  \/ CreateReturns
  \/ DispatchPrompt
  \/ StreamEvent
  \/ StreamEnd
  \/ StreamThrows
  \/ CommMsg
  \/ InterruptRequest
  \/ CloseTimer

Spec == Init /\ [][Next]_vars

\* ------------------------------------------------------------------------
\* Configuration calls that arrive while a send is suspended at an await:
\* autoSelectLocalProvider, getModelToUse, createProvider or the stream loop.
\* The locals of the send (provider, model and credential it resolved) are
\* its own; the call sees and changes the manager's fields.
\* ------------------------------------------------------------------------
AtAwait == pc \in {"select", "try", "creating", "streaming"}

\* a credential entered while a send is running
LateKeys == {"k2"}

SetApiKeyInFlight ==
  /\ AtAwait
  /\ \E key \in LateKeys : setApiKey(key)
  /\ lastCall' = "setApiKey"
  /\ UNCHANGED << settingsVars, browserSupport, sideVars, commVars, kernelVars,
                  localVars, outVars, sendAfter, sendBuilds, attempted, preState >>

SetProviderInFlight ==
  /\ AtAwait
  /\ \E p \in ConfigProviders : setProvider(p, NULL, NULL)
  /\ lastCall' = "setProvider"
  /\ UNCHANGED << settingsVars, browserSupport, sideVars, commVars, kernelVars,
                  localVars, outVars, sendAfter, sendBuilds, attempted, preState >>

SetModelInFlight ==
  /\ AtAwait
  /\ \E m \in UserModels : setModel(m)
  /\ lastCall' = "setModel"
  /\ UNCHANGED << settingsVars, browserSupport, sideVars, commVars, kernelVars,
                  localVars, outVars, sendAfter, sendBuilds, attempted, preState >>

\* sends and configuration calls alone, in any interleaving: no cancel, no
\* interrupt, no change of the settings
ConcurrentNext ==
  \/ SetApiKey
  \/ SetProvider
  \/ SetModel
  \/ ExecuteRequest
  \/ AutoSelect
  \/ TryProvider
  \/ CreateFails
  \/ CreateReturns
  \/ DispatchPrompt
  \/ StreamEvent
  \/ StreamEnd
  \/ StreamThrows
  \/ CloseTimer
  \/ SetApiKeyInFlight
  \/ SetProviderInFlight
  \/ SetModelInFlight

ConcurrentSpec == Init /\ [][ConcurrentNext]_vars

\* ------------------------------------------------------------------------
\* The shared instance pool on its own: holders acquire and release model
\* ids directly.  An id has an entry while its count is positive; the
\* release that brings the count to zero tears the instance down.
\* ------------------------------------------------------------------------
PoolAcquire ==
  \E id \in PoolModelIds :
    /\ poolOps[id].acquires < MaxPoolCalls
    /\ pool' = acquireWebLLMInstance(pool, id)
    /\ poolOps' = [poolOps EXCEPT ![id].acquires = @ + 1]
    /\ UNCHANGED << mgrVars, settingsVars, browserSupport, commVars, kernelVars,
                    localVars, outVars, histVars, reportVars, probeVars,
                    toolVars, chunkVars, cellVars, tokenVars >>

\* release by a holder of a reference
PoolRelease ==
  \E id \in PoolModelIds :
    /\ pool[id] > 0
    /\ pool' = releaseWebLLMInstance(pool, id)
    /\ poolOps' = [poolOps EXCEPT
                     ![id].releases = @ + 1,
                     ![id].teardowns =
                       IF releaseWebLLMInstance(pool, id)[id] = 0 THEN @ + 1 ELSE @]
    /\ UNCHANGED << mgrVars, settingsVars, browserSupport, commVars, kernelVars,
                    localVars, outVars, histVars, reportVars, probeVars,
                    toolVars, chunkVars, cellVars, tokenVars >>

PoolNext ==
  \/ PoolAcquire
  \/ PoolRelease

PoolSpec == Init /\ [][PoolNext]_vars

\* ------------------------------------------------------------------------
\* providers.ts on its own: support checks with their cache, auto-select and
\* the fallback order.  A probe reports what the browser supports, or
\* unsupported when the import of the provider package fails.
\* ------------------------------------------------------------------------
CloudProviders == {"openai", "anthropic", "google"}
UNKNOWN_PROVIDER == "ollama"
ProbeOutcomes(p) == {browserSupport[p], FALSE}

\* isBuiltInAICoreSupported / isTransformersSupported / isWebLLMSupported
\* on the cache and probe counts st, when a probe would report outcome
isSupported_uncached(st, p, outcome) ==
  [supported |-> outcome,
   cache |-> (p :> outcome) @@ st.cache,
   runs |-> [st.runs EXCEPT ![p] = @ + 1]]

isSupported(st, p, outcome) ==
  IF p \in DOMAIN st.cache
  THEN [supported |-> st.cache[p], cache |-> st.cache, runs |-> st.runs]
  ELSE [supported |-> outcome,
        cache |-> (p :> outcome) @@ st.cache,
        runs |-> [st.runs EXCEPT ![p] = @ + 1]]

checkProviderSupport(st, name, outcome) ==
  IF name \in LocalProviders THEN isSupported(st, name, outcome)
  ELSE IF name \in CloudProviders
  THEN [supported |-> TRUE, cache |-> st.cache, runs |-> st.runs]
  ELSE [supported |-> FALSE, cache |-> st.cache, runs |-> st.runs]

probeState == [cache |-> providerSupportCache, runs |-> probeRuns]

\* what the calls on providers.ts leave alone
probeFrame ==
  << mgrVars, settingsVars, browserSupport, pool, poolOps, reportVars,
     commVars, kernelVars, localVars, outVars, histVars, toolVars,
     chunkVars, cellVars, tokenVars >>

CheckProviderSupport ==
  /\ \E name \in LocalProviders \cup CloudProviders \cup {UNKNOWN_PROVIDER} :
       \E outcome \in (IF name \in LocalProviders THEN ProbeOutcomes(name)
                        ELSE {FALSE}) :
         LET r == checkProviderSupport(probeState, name, outcome)
         IN /\ providerSupportCache' = r.cache
            /\ probeRuns' = r.runs
            /\ lastSupport' = [called |-> TRUE, provider |-> name,
                               supported |-> r.supported,
                               cached |-> name \in DOMAIN providerSupportCache,
                               before |-> IF name \in DOMAIN providerSupportCache
                                          THEN providerSupportCache[name]
                                          ELSE FALSE]
  /\ UNCHANGED << probeFrame, selected, fallbackCall >>

\* create*Provider: the support check it begins with; the construction then
\* fails or succeeds
CreateLocalProvider ==
  /\ \E name \in LocalProviders : \E outcome \in ProbeOutcomes(name) :
       LET r == isSupported(probeState, name, outcome)
       IN /\ providerSupportCache' = r.cache
          /\ probeRuns' = r.runs
  /\ UNCHANGED << probeFrame, lastSupport, selected, fallbackCall >>

ClearProviderCaches ==
  /\ providerSupportCache' = EmptyCache
  /\ probeRuns' = [p \in LocalProviders |-> 0]
  /\ UNCHANGED << probeFrame, lastSupport, selected, fallbackCall >>

\* autoSelectLocalProvider: the checks in the order of the function, each
\* made only when the ones before it reported unsupported
AutoSelectLocalProvider ==
  /\ \E oc \in ProbeOutcomes(CORE), ow \in ProbeOutcomes(WEBLLM),
        ot \in ProbeOutcomes(TRANSFORMERS) :
       LET c == isSupported(probeState, CORE, oc)
           w == isSupported(c, WEBLLM, ow)
           t == isSupported(w, TRANSFORMERS, ot)
           results == (CORE :> c.supported) @@ (WEBLLM :> w.supported)
                        @@ (TRANSFORMERS :> t.supported)
           after == IF c.supported THEN c ELSE IF w.supported THEN w ELSE t
       IN /\ selected' = [called |-> TRUE,
                           provider |-> autoSelectLocalProvider(results),
                           results |-> results]
          /\ providerSupportCache' = after.cache
          /\ probeRuns' = after.runs
  /\ UNCHANGED << probeFrame, lastSupport, fallbackCall >>

GetNextFallbackProvider ==
  /\ \E failedProvider \in LocalProviders \cup {OPENAI} :
       fallbackCall' = [called |-> TRUE, failed |-> failedProvider,
                        next |-> getNextFallbackProvider(failedProvider)]
  /\ UNCHANGED << probeFrame, providerSupportCache, probeRuns, lastSupport,
                  selected >>

ProviderNext ==
  \/ CheckProviderSupport
  \/ CreateLocalProvider
  \/ ClearProviderCaches
  \/ AutoSelectLocalProvider
  \/ GetNextFallbackProvider

ProviderSpec == Init /\ [][ProviderNext]_vars

\* ------------------------------------------------------------------------
\* The progress channel on its own: the reports one kernel hands to it, in
\* the order executeRequest and createSession hand them, and what the
\* consumer receives.  Each createSession is followed by the terminal report
\* of its execution before the next createSession begins.
\* ------------------------------------------------------------------------
TerminalReports ==
  { [status |-> "complete", message |-> "Ready"],
    [status |-> "cancelled", message |-> "Cancelled"],
    [status |-> "error", message |-> "Error"] }

\* what the channel's own operations leave alone
reportFrame ==
  << mgrVars, settingsVars, browserSupport, pool, poolOps, kernelVars, pc,
     autoMode, providerName, modelName, apiKey, errors, remaining, reply,
     thrown, forwarded, histVars, probeVars, toolVars, chunkVars,
     cellVars, tokenVars >>

\* executeRequest: progressComm.open
ChannelOpen ==
  /\ isOpen' = open.isOpen
  /\ commId' = open.commId
  /\ isCancelled' = open.isCancelled
  /\ frontendComms' = open.frontendComms
  /\ UNCHANGED << reportFrame, lastProgressMessage, delivered, reportVars >>

\* createSession begins: let lastProgressMessage = ''
ChannelCreateSession ==
  /\ IF reportsEmitted = << >> THEN TRUE
     ELSE reportsEmitted[Len(reportsEmitted)].status # "loading"
  /\ lastProgressMessage # ""
  /\ lastProgressMessage' = ""
  /\ UNCHANGED << reportFrame, commVars, delivered, reportVars >>

\* a provider's download calls the progressCallback of createSession
ChannelProgress ==
  /\ Len(reportsEmitted) < MaxReports
  /\ \E text \in ProgressTexts :
       LET r == progressCallback(text)
           out == IF r.reports = << >> THEN << >>
                  ELSE handleComm(r.reports[1].message, r.reports[1].status)
       IN /\ lastProgressMessage' = r.lastProgressMessage
          /\ reportsEmitted' =
               Append(reportsEmitted, [status |-> "loading", message |-> text])
          /\ reportsDelivered' = reportsDelivered \o out
          /\ delivered' = IF out = << >> THEN delivered ELSE out[1]
  /\ UNCHANGED << reportFrame, commVars >>

\* executeRequest reports how the execution ended
ChannelTerminal ==
  /\ Len(reportsEmitted) < MaxReports
  /\ \E t \in TerminalReports :
       /\ reportsEmitted' = Append(reportsEmitted, t)
       /\ reportsDelivered' = reportsDelivered \o handleComm(t.message, t.status)
       /\ delivered' = sendProgress(t.message, t.status)
  /\ UNCHANGED << reportFrame, commVars, lastProgressMessage >>

\* the delayed progressComm.close of executeRequest
ChannelClose ==
  /\ isOpen' = close.isOpen
  /\ commId' = close.commId
  /\ frontendComms' = close.frontendComms
  /\ UNCHANGED << reportFrame, isCancelled, lastProgressMessage, delivered,
                  reportVars >>

ReportNext ==
  \/ ChannelOpen
  \/ ChannelCreateSession
  \/ ChannelProgress
  \/ ChannelTerminal
  \/ ChannelClose

ReportSpec == Init /\ [][ReportNext]_vars

\* ------------------------------------------------------------------------
\* The tool packs of AIChatKernel on their own.  enabledToolPacks is a Set
\* (kept in insertion order), toolPacksCache a Map from pack name to the
\* tools of the pack, a tools record is the sequence of its keys.
\* ------------------------------------------------------------------------
WIKI_QUERY == "wiki-query"
PackNames == {WIKI_QUERY, "unknown-pack"}

getWikiQueryTools ==
  << "discover_wiki_source", "get_wiki_content", "get_content_stats",
     "get_chunked_content", "convert_to_rdf", "clear_wiki_cache" >>

\* Set.prototype.has / Object.prototype.hasOwnProperty
has(s, x) == \E i \in 1..Len(s) : s[i] = x
\* Set.prototype.add
add(s, x) == IF has(s, x) THEN s ELSE Append(s, x)
\* Set.prototype.delete
delete(s, x) == SelectSeq(s, LAMBDA y : y # x)
\* Object.assign(target, source), on the keys
assign(target, source) ==
  target \o SelectSeq(source, LAMBDA k : ~has(target, k))

toolState ==
  [enabledToolPacks |-> enabledToolPacks, toolPacksCache |-> toolPacksCache]

getToolPackTools(st, packName) ==
  IF packName \in DOMAIN st.toolPacksCache
  THEN [tools |-> st.toolPacksCache[packName],
        toolPacksCache |-> st.toolPacksCache]
  ELSE IF packName = WIKI_QUERY
  THEN [tools |-> getWikiQueryTools,
        toolPacksCache |-> (packName :> getWikiQueryTools) @@ st.toolPacksCache]
  ELSE [tools |-> << >>, toolPacksCache |-> st.toolPacksCache]

enableToolPack_no_check(st, packName) ==
  IF packName = WIKI_QUERY
  THEN [enabledToolPacks |-> Append(st.enabledToolPacks, packName),
        toolPacksCache |-> (packName :> getWikiQueryTools) @@ st.toolPacksCache,
        result |-> [called |-> TRUE, enabled |-> TRUE,
                    tools |-> getWikiQueryTools, message |-> "Enabled"]]
  ELSE [enabledToolPacks |-> st.enabledToolPacks,
        toolPacksCache |-> st.toolPacksCache,
        result |-> [called |-> TRUE, enabled |-> FALSE, tools |-> << >>,
                    message |-> "Unknown tool pack"]]

enableToolPack_accepts_any(st, packName) ==
  IF has(st.enabledToolPacks, packName)
  THEN [enabledToolPacks |-> st.enabledToolPacks,
        toolPacksCache |-> st.toolPacksCache,
        result |-> [called |-> TRUE, enabled |-> TRUE,
                    tools |-> getToolPackTools(st, packName).tools,
                    message |-> "already enabled"]]
  ELSE [enabledToolPacks |-> add(st.enabledToolPacks, packName),
        toolPacksCache |-> getToolPackTools(st, packName).toolPacksCache,
        result |-> [called |-> TRUE, enabled |-> TRUE,
                    tools |-> getToolPackTools(st, packName).tools,
                    message |-> "Enabled"]]

enableToolPack(st, packName) ==
  IF packName = WIKI_QUERY
  THEN IF has(st.enabledToolPacks, packName)
       THEN [enabledToolPacks |-> st.enabledToolPacks,
             toolPacksCache |-> getToolPackTools(st, packName).toolPacksCache,
             result |-> [called |-> TRUE, enabled |-> TRUE,
                         tools |-> getToolPackTools(st, packName).tools,
                         message |-> "already enabled"]]
       ELSE [enabledToolPacks |-> add(st.enabledToolPacks, packName),
             toolPacksCache |->
               (packName :> getWikiQueryTools) @@ st.toolPacksCache,
             result |-> [called |-> TRUE, enabled |-> TRUE,
                         tools |-> getWikiQueryTools, message |-> "Enabled"]]
  ELSE [enabledToolPacks |-> st.enabledToolPacks,
        toolPacksCache |-> st.toolPacksCache,
        result |-> [called |-> TRUE, enabled |-> FALSE, tools |-> << >>,
                    message |-> "Unknown tool pack"]]

disableToolPack_keeps_enabled(st, packName) ==
  IF has(st.enabledToolPacks, packName)
  THEN [enabledToolPacks |-> st.enabledToolPacks,
        toolPacksCache |-> [q \in DOMAIN st.toolPacksCache \ {packName}
                              |-> st.toolPacksCache[q]],
        result |-> [called |-> TRUE, disabled |-> TRUE,
                    message |-> "Disabled"]]
  ELSE [enabledToolPacks |-> st.enabledToolPacks,
        toolPacksCache |-> st.toolPacksCache,
        result |-> [called |-> TRUE, disabled |-> FALSE,
                    message |-> "not enabled"]]

disableToolPack(st, packName) ==
  IF has(st.enabledToolPacks, packName)
  THEN [enabledToolPacks |-> delete(st.enabledToolPacks, packName),
        toolPacksCache |-> [q \in DOMAIN st.toolPacksCache \ {packName}
                              |-> st.toolPacksCache[q]],
        result |-> [called |-> TRUE, disabled |-> TRUE,
                    message |-> "Disabled"]]
  ELSE [enabledToolPacks |-> st.enabledToolPacks,
        toolPacksCache |-> st.toolPacksCache,
        result |-> [called |-> TRUE, disabled |-> FALSE,
                    message |-> "not enabled"]]

\* the loop of getEnabledTools over the packs still to visit
RECURSIVE getEnabledToolsFrom(_, _, _)
getEnabledToolsFrom(st, packs, allTools) ==
  IF packs = << >>
  THEN [tools |-> allTools, toolPacksCache |-> st.toolPacksCache]
  ELSE LET packTools == getToolPackTools(st, Head(packs))
       IN getEnabledToolsFrom(
            [st EXCEPT !.toolPacksCache = packTools.toolPacksCache],
            Tail(packs), assign(allTools, packTools.tools))

getEnabledTools(st) == getEnabledToolsFrom(st, st.enabledToolPacks, << >>)

\* the loop of listEnabledTools over the packs still to visit
RECURSIVE listEnabledToolsFrom(_, _, _, _)
listEnabledToolsFrom(st, rest, packs, total) ==
  IF rest = << >>
  THEN [packs |-> packs, total |-> total,
        toolPacksCache |-> st.toolPacksCache]
  ELSE LET tools == getToolPackTools(st, Head(rest))
       IN listEnabledToolsFrom(
            [st EXCEPT !.toolPacksCache = tools.toolPacksCache],
            Tail(rest),
            Append(packs, [name |-> Head(rest), tools |-> tools.tools]),
            total + Len(tools.tools))

listEnabledTools(st) == listEnabledToolsFrom(st, st.enabledToolPacks, << >>, 0)

\* what the tool-pack methods leave alone
toolFrame ==
  << mgrVars, settingsVars, browserSupport, pool, poolOps, reportVars,
     probeVars, commVars, kernelVars, localVars, outVars, histVars,
     chunkVars, cellVars, tokenVars >>

EnableToolPack ==
  /\ \E packName \in PackNames :
       LET r == enableToolPack(toolState, packName)
       IN /\ enabledToolPacks' = r.enabledToolPacks
          /\ toolPacksCache' = r.toolPacksCache
          /\ enableResult' = r.result
          /\ toolCall' = [called |-> TRUE, op |-> "enableToolPack",
                          packName |-> packName]
  /\ UNCHANGED << toolFrame, disableResult, enabledTools, listed >>

DisableToolPack ==
  /\ \E packName \in PackNames :
       LET r == disableToolPack(toolState, packName)
       IN /\ enabledToolPacks' = r.enabledToolPacks
          /\ toolPacksCache' = r.toolPacksCache
          /\ disableResult' = r.result
          /\ toolCall' = [called |-> TRUE, op |-> "disableToolPack",
                          packName |-> packName]
  /\ UNCHANGED << toolFrame, enableResult, enabledTools, listed >>

GetEnabledTools ==
  /\ LET r == getEnabledTools(toolState)
     IN /\ toolPacksCache' = r.toolPacksCache
        /\ enabledTools' = [called |-> TRUE, tools |-> r.tools]
  /\ toolCall' = [called |-> TRUE, op |-> "getEnabledTools", packName |-> NULL]
  /\ UNCHANGED << toolFrame, enabledToolPacks, enableResult, disableResult,
                  listed >>

ListEnabledTools ==
  /\ LET r == listEnabledTools(toolState)
     IN /\ toolPacksCache' = r.toolPacksCache
        /\ listed' = [called |-> TRUE, packs |-> r.packs, total |-> r.total]
  /\ toolCall' = [called |-> TRUE, op |-> "listEnabledTools", packName |-> NULL]
  /\ UNCHANGED << toolFrame, enabledToolPacks, enableResult, disableResult,
                  enabledTools >>

ToolNext ==
  \/ EnableToolPack
  \/ DisableToolPack
  \/ GetEnabledTools
  \/ ListEnabledTools

ToolSpec == Init /\ [][ToolNext]_vars

\* ------------------------------------------------------------------------
\* wiki-query: the get_chunked_content tool and chunkContent.  A text is a
\* sequence of characters.  chunkSize is a JavaScript number: it and the
\* loop variable i are counted in halves (Half units to the character), so
\* that the sizes 0.5, 1.5, 2.5 are inputs as well as 1, 2, 3.
\* ------------------------------------------------------------------------
Half == 2
MaxTextLen == 3
MaxChunkSteps == 4
Chars == {"a", "b"}
DEFAULT_CHUNK_SIZE == 2000 * Half
\* chunkSize values of a tool call, in halves: -1, 0, 0.5, 1, 1.5, 2, 2.5, 3
ChunkSizes == {-2, 0, 1, 2, 3, 4, 5, 6}
Texts == UNION {[1..n -> Chars] : n \in 0..MaxTextLen}

Min(a, b) == IF a < b THEN a ELSE b
Max(a, b) == IF a > b THEN a ELSE b

\* ToIntegerOrInfinity of a number given in halves, clamped as
\* String.prototype.substring clamps its arguments to 0..length
substringIndex(x, length) == Min(Max(x, 0) \div Half, length)

\* String.prototype.substring(start, end): the arguments are swapped when
\* start is greater than end
substring(str, start, end) ==
  LET from == Min(substringIndex(start, Len(str)), substringIndex(end, Len(str)))
      to == Max(substringIndex(start, Len(str)), substringIndex(end, Len(str)))
  IN SubSeq(str, from + 1, to)

\* the body of the for loop of chunkContent at i
chunk(str, size, i, index) ==
  [index |-> index, startChar |-> i,
   endChar |-> Min(i + size, Len(str) * Half),
   content |-> substring(str, i, Min(i + size, Len(str) * Half))]

\* what chunkContent leaves alone
chunkFrame ==
  << mgrVars, settingsVars, browserSupport, pool, poolOps, reportVars,
     probeVars, toolVars, commVars, kernelVars, localVars, outVars, histVars,
     cellVars, tokenVars >>

\* get_chunked_content.execute -> getChunkedContent -> chunkContent, up to
\* the first test of the loop condition; the text is what getWikiContent
\* fetched
GetChunkedContent ==
  /\ chunkPc \in {"idle", "done"}
  /\ \E text \in Texts, size \in ChunkSizes :
       /\ wikitext' = text
       /\ chunkSize' = IF size = 0 THEN DEFAULT_CHUNK_SIZE ELSE size
  /\ chunkI' = 0 /\ chunks' = << >> /\ chunkPc' = "loop"
  /\ UNCHANGED chunkFrame

\* one iteration of the for loop
ChunkLoop ==
  /\ chunkPc = "loop"
  /\ chunkI < Len(wikitext) * Half
  /\ Len(chunks) < MaxChunkSteps
  /\ chunks' = Append(chunks, chunk(wikitext, chunkSize, chunkI, Len(chunks)))
  /\ chunkI' = chunkI + chunkSize
  /\ UNCHANGED << chunkFrame, wikitext, chunkSize, chunkPc >>

\* the loop condition fails: return chunks
ChunkReturn ==
  /\ chunkPc = "loop"
  /\ ~(chunkI < Len(wikitext) * Half)
  /\ chunkPc' = "done"
  /\ UNCHANGED << chunkFrame, wikitext, chunkSize, chunkI, chunks >>

ChunkNext ==
  \/ GetChunkedContent
  \/ ChunkLoop
  \/ ChunkReturn

ChunkSpec == Init /\ [][ChunkNext]_vars

\* ------------------------------------------------------------------------
\* executeRequest: the lines of a cell.  A string is a sequence of tokens:
\* words, the blank and the line break.
\* ------------------------------------------------------------------------
MaxCellLines == 2
SP == " "
NL == "\n"
Whitespace == {SP, NL}
MAGIC == "%chat"

\* the lines a cell is written from
SourceLines ==
  { << MAGIC, SP, "key", SP, "k1" >>,
    << SP, MAGIC, SP, "model", SP, MODEL_X >>,
    << MAGIC, SP, "provider", SP, OPENAI >>,
    << MAGIC, SP, "bogus" >>,
    << "hi" >>,
    << SP, "say", SP, MAGIC, SP >>,
    << SP >> }

\* Array.prototype.join('\n')
RECURSIVE join(_)
join(lines) ==
  IF lines = << >> THEN << >>
  ELSE IF Len(lines) = 1 THEN lines[1]
  ELSE lines[1] \o << NL >> \o join(Tail(lines))

\* String.prototype.split('\n'): cur is the line being read
RECURSIVE splitFrom(_, _)
splitFrom(str, cur) ==
  IF str = << >> THEN << cur >>
  ELSE IF Head(str) = NL THEN << cur >> \o splitFrom(Tail(str), << >>)
  ELSE splitFrom(Tail(str), Append(cur, Head(str)))

split(str) == splitFrom(str, << >>)

RECURSIVE trimStart(_)
trimStart(str) ==
  IF str = << >> \/ Head(str) \notin Whitespace THEN str
  ELSE trimStart(Tail(str))

RECURSIVE trimEnd(_)
trimEnd(str) ==
  IF str = << >> \/ str[Len(str)] \notin Whitespace THEN str
  ELSE trimEnd(SubSeq(str, 1, Len(str) - 1))

\* String.prototype.trim
trim(str) == trimEnd(trimStart(str))

\* String.prototype.startsWith
startsWith(str, word) == str # << >> /\ str[1] = word

\* the test of the line loop: trimmed.startsWith('%chat')
isMagicLine_untrimmed(line) == startsWith(line, MAGIC)

isMagicLine(line) == startsWith(trim(line), MAGIC)

\* processSingleMagic: the command a line is, by the patterns it matches
magicCommand(line) ==
  LET trimmed == trim(line)
  IN IF Len(trimmed) = 5 /\ trimmed[2] = SP /\ trimmed[3] = "key"
          /\ trimmed[4] = SP
     THEN [cmd |-> "key", arg |-> trimmed[5]]
     ELSE IF Len(trimmed) = 5 /\ trimmed[2] = SP /\ trimmed[3] = "provider"
               /\ trimmed[4] = SP
     THEN [cmd |-> "provider", arg |-> trimmed[5]]
     ELSE IF Len(trimmed) = 5 /\ trimmed[2] = SP /\ trimmed[3] = "model"
               /\ trimmed[4] = SP
     THEN [cmd |-> "model", arg |-> trimmed[5]]
     ELSE [cmd |-> "unknown", arg |-> NULL]

\* what the line loop leaves alone
cellFrame ==
  << settingsVars, browserSupport, poolOps, reportVars, probeVars, toolVars,
     chunkVars, commVars, kernelVars, localVars, outVars, histVars,
     tokenVars >>

\* executeRequest up to the line loop: code.split('\n')
ExecuteCell ==
  /\ cellPc \in {"idle", "sent", "done"}
  /\ \E n \in 1..MaxCellLines : \E written \in [1..n -> SourceLines] :
       /\ cellCode' = join(written)
       /\ cellLines' = split(join(written))
  /\ magicApplied' = << >> /\ magicResults' = << >> /\ nonMagicLines' = << >>
  /\ promptSent' = NoCall
  /\ cellPc' = "lines"
  /\ UNCHANGED << cellFrame, mgrVars, pool >>

\* one iteration of the line loop
CellLine ==
  /\ cellPc = "lines" /\ cellLines # << >>
  /\ cellLines' = Tail(cellLines)
  /\ LET line == Head(cellLines)
         command == magicCommand(line)
     IN IF isMagicLine(line)
        THEN /\ CASE command.cmd = "key" -> setApiKey(command.arg)
                  [] command.cmd = "provider" ->
                       setProvider(command.arg, NULL, NULL)
                  [] command.cmd = "model" -> setModel(command.arg)
                  [] OTHER -> UNCHANGED << mgrVars, pool >>
             /\ magicApplied' = Append(magicApplied, trim(line))
             /\ magicResults' = Append(magicResults, command.cmd)
             /\ UNCHANGED nonMagicLines
        ELSE /\ nonMagicLines' = IF trim(line) # << >>
                                  THEN Append(nonMagicLines, line)
                                  ELSE nonMagicLines
             /\ UNCHANGED << mgrVars, pool, magicApplied, magicResults >>
  /\ UNCHANGED << cellFrame, cellCode, promptSent, cellPc >>

\* after the loop: the prompt, passed to send when it is not empty
CellPrompt ==
  /\ cellPc = "lines" /\ cellLines = << >>
  /\ LET prompt == trim(join(nonMagicLines))
     IN IF prompt # << >>
        THEN /\ promptSent' = [called |-> TRUE, prompt |-> prompt]
             /\ cellPc' = "sent"
        ELSE /\ promptSent' = promptSent
             /\ cellPc' = "done"
  /\ UNCHANGED << cellFrame, mgrVars, pool, cellCode, cellLines, magicApplied,
                  magicResults, nonMagicLines >>

CellNext ==
  \/ ExecuteCell
  \/ CellLine
  \/ CellPrompt

CellSpec == Init /\ [][CellNext]_vars

\* ------------------------------------------------------------------------
\* Sends with no provider configured, where every await of the construction
\* comes back: autoSelectLocalProvider and getDefaultModel resolve, and
\* createProvider returns or throws.
\* ------------------------------------------------------------------------
AutoSelectNext ==
  \/ ExecuteRequest
  \/ AutoSelect
  \/ TryProvider
  \/ Progress
  \/ CreateFails
  \/ CreateReturns
  \/ DispatchPrompt
  \/ StreamEvent
  \/ StreamEnd
  \/ StreamThrows
  \/ CommMsg
  \/ InterruptRequest
  \/ CloseTimer

AutoSelectSpec ==
  /\ Init /\ [][AutoSelectNext]_vars
  /\ WF_vars(AutoSelect)
  /\ WF_vars(TryProvider)
  /\ WF_vars(CreateFails \/ CreateReturns)

\* ------------------------------------------------------------------------
\* Shutdown requests that arrive at any time: between executions, or while a
\* send is suspended at an await.
\* ------------------------------------------------------------------------
\* shutdownRequest while a send is in flight: abort, then chat.shutdown
ShutdownInFlight ==
  /\ AtAwait
  /\ IF abortController # NULL
     THEN signalAborted' = TRUE /\ abortController' = NULL
     ELSE UNCHANGED << signalAborted, abortController >>
  /\ shutdown
  /\ lastCall' = "shutdown"
  /\ UNCHANGED << settingsVars, browserSupport, sideVars, commVars, closeTimers,
                  localVars, outVars, sendAfter, sendBuilds, attempted, preState >>

ShutdownNext ==
  \/ Shutdown
  \/ ShutdownInFlight
  \/ ExecuteRequest
  \/ AutoSelect
  \/ TryProvider
  \/ Progress
  \/ CreateFails
  \/ CreateReturns
  \/ DispatchPrompt
  \/ StreamEvent
  \/ StreamEnd
  \/ StreamThrows
  \/ CloseTimer

ShutdownSpec == Init /\ [][ShutdownNext]_vars

\* ------------------------------------------------------------------------
\* The cancellation token and the abort controller on their own: the
\* beginning and the finally block of executeRequest, with the messages,
\* the interrupt and the delayed close arriving at any time.
\* ------------------------------------------------------------------------
\* what the beginning and the end of executeRequest leave alone
tokenFrame ==
  << mgrVars, settingsVars, browserSupport, pool, poolOps, reportVars,
     probeVars, toolVars, chunkVars, cellVars, localVars, histVars, reply,
     thrown, forwarded >>

\* executeRequest: new AbortController, progressComm.open
TokenStart ==
  /\ tokenPc = "idle"
  /\ closeTimers < MaxCloseTimers
  /\ abortController' = "live"
  /\ signalAborted' = FALSE
  /\ isOpen' = open.isOpen
  /\ commId' = open.commId
  /\ isCancelled' = open.isCancelled
  /\ frontendComms' = open.frontendComms
  /\ delivered' = NoReport
  /\ cancelledBefore' = isCancelled
  /\ tokenPc' = "running"
  /\ UNCHANGED << tokenFrame, closeTimers >>

\* executeRequest: the terminal report and the finally block
TokenEnd ==
  /\ tokenPc = "running"
  /\ \E t \in TerminalReports : delivered' = sendProgress(t.message, t.status)
  /\ abortController' = NULL
  /\ closeTimers' = closeTimers + 1
  /\ tokenPc' = "idle"
  /\ UNCHANGED << tokenFrame, commVars, signalAborted, cancelledBefore >>

TokenNext ==
  \/ TokenStart
  \/ TokenEnd
  \/ CommMsg
  \/ InterruptRequest
  \/ CloseTimer

TokenSpec == Init /\ [][TokenNext]_vars

TypeOK ==
  /\ pc \in {"idle", "select", "try", "creating", "dispatch", "streaming"}
  /\ sessionInitialized \in BOOLEAN
  /\ closeTimers \in 0..MaxCloseTimers
  /\ frontendComms \in 0..1
  /\ \A id \in PoolModelIds : pool[id] \in 0..MaxRefCount

\* ------------------------------------------------------------------------
\* Claims
\* ------------------------------------------------------------------------
InFlight == pc # "idle"
Last(seq) == seq[Len(seq)]
\* seq is a run of consecutive entries of order
IsRunOf(seq, order) ==
  \E k \in 0..Len(order) :
    /\ k + Len(seq) <= Len(order)
    /\ \A i \in 1..Len(seq) : seq[i] = order[k + i]
ProvidersOf(errs) == [i \in 1..Len(errs) |-> errs[i].provider]

\* C1: refresh stability.  In auto-select mode (no provider pending or in the
\* settings, no model pending) a send that starts on a session an earlier
\* send built does not invoke createSession: the session is built once.
C1_RefreshStability ==
  (InFlight /\ preState.sessionInitialized /\ isAutoSelectMode
     /\ pendingModel = NULL)
    => sendBuilds = 0

\* a second send in a row runs on the auto-selected WebLLM session
C1_Witness ==
  /\ pc = "streaming" /\ sendAfter = "send" /\ preState.sessionInitialized
  /\ isAutoSelectMode /\ pendingModel = NULL
  /\ activeProvider = WEBLLM /\ sendBuilds = 0

\* C2: explicit override forces reconstruction.  The send that follows
\* setModel(X) invokes createSession exactly once, whatever the session
\* state was and also when X is the model already active.
C2_SetModelForcesRebuild ==
  (InFlight /\ sendAfter = "setModel") => sendBuilds = 1

\* setModel named the model that was already active, and the send rebuilds
C2_Witness ==
  /\ pc = "creating" /\ sendAfter = "setModel"
  /\ preState.activeModel = pendingModel /\ sendBuilds = 1

\* C3: after a send that completed successfully Active matches what Pending
\* resolves to: a pending model is the active model and the next send needs
\* no refresh.
C3_ActiveMatchesPending ==
  (pc = "idle" /\ lastCall = "send" /\ reply = "ok")
    => /\ ~needsSessionRefresh
       /\ pendingModel # NULL => activeModel = pendingModel

\* C4: cancellation leaves no partial commit.  When a construction ends on
\* the progress channel's cancellation the session is reported inactive,
\* Active and Pending are as they were when the send began, and the next
\* send constructs a session.
C4_NoPartialCommit ==
  [][(InFlight /\ pc' = "idle" /\ thrown'.kind = "Cancelled")
       => /\ ~sessionInitialized'
          /\ MgrSnapshot' = preState
          /\ needsSessionRefresh']_vars

\* C5: a cancelled construction releases every pool reference it acquired:
\* afterwards the pool holds for this manager exactly the reference that the
\* manager tracks.
C5_CancelReleasesAcquired ==
  (pc = "idle" /\ lastCall = "send" /\ thrown.kind = "Cancelled")
    => \A id \in PoolModelIds :
         pool[id] = IF activeWebLLMModelId = id THEN 1 ELSE 0

\* C6: once the abort signal is set during streaming no further event is
\* consumed or forwarded; the send ends with the cancellation outcome at the
\* next event, and it returns text as a success only when the stream had
\* delivered all of it.
C6_AbortStopsStream ==
  [][(pc = "streaming" /\ signalAborted)
       => \/ pc' = "streaming" /\ forwarded' = forwarded /\ remaining' = remaining
          \/ pc' = "idle" /\ reply' = "abort"
          \/ pc' = "idle" /\ reply' = "error" /\ thrown'.kind = "Generation"
          \/ pc' = "idle" /\ reply' = "ok" /\ remaining = 0]_vars

\* the signal is aborted in the middle of a stream that forwarded a chunk
C6_Witness ==
  pc = "streaming" /\ signalAborted /\ forwarded > 0 /\ remaining > 0

\* C7: with an explicitly configured credentialed provider and no credential
\* the send fails with the error that names the provider and the key
\* command, no provider is created, and no session is active afterwards.
C7_MissingCredential ==
  (pc = "idle" /\ lastCall = "send" /\ getProviderToUse # NULL
     /\ requiresApiKey(getProviderToUse) /\ getApiKey = NULL)
    => /\ reply = "error"
       /\ thrown.kind = "ApiKeyRequired"
       /\ thrown.provider = getProviderToUse
       /\ thrown.hint = "%chat key"
       /\ attempted = << >>
       /\ ~sessionInitialized

\* C8: auto-select fallback.  The providers a send tries are consecutive
\* entries of the fixed order, starting at the auto-selected one; the send
\* gives up only after the last entry; and it streams on the first candidate
\* whose construction succeeds, the failures before it kept to itself.
C8_FallbackToNext ==
  /\ []((isAutoSelectMode /\ pc \in {"creating", "streaming"} /\ sendBuilds = 1)
          => /\ IsRunOf(attempted, << CORE, WEBLLM, TRANSFORMERS >>)
             /\ attempted[1] = autoSelectLocalProvider(browserSupport)
             /\ ProvidersOf(errors) = SubSeq(attempted, 1, Len(attempted) - 1))
  /\ []((isAutoSelectMode /\ pc = "streaming" /\ sendBuilds = 1)
          => /\ activeProvider = Last(attempted)
             /\ languageModel.provider = Last(attempted)
             /\ reply = "none" /\ thrown = NoError)
  /\ [][(isAutoSelectMode /\ pc = "creating" /\ pc' = "idle"
           /\ thrown'.name = "Error")
          => /\ Last(attempted) = TRANSFORMERS
             /\ thrown'.kind = "AllFailed"]_vars

\* two candidates failed and the send streams on the third
C8_Witness ==
  /\ isAutoSelectMode /\ pc = "streaming" /\ sendBuilds = 1
  /\ attempted = << CORE, WEBLLM, TRANSFORMERS >>
  /\ activeProvider = TRANSFORMERS

\* C9: when every auto-select candidate fails the send fails with the one
\* aggregate error that lists each attempted provider with its reason and
\* advises a credentialed provider, and no session is active afterwards.
C9_AggregateError ==
  (pc = "idle" /\ lastCall = "send" /\ thrown.kind = "AllFailed")
    => /\ reply = "error"
       /\ ProvidersOf(thrown.errors) = attempted
       /\ \A i \in 1..Len(thrown.errors) : thrown.errors[i].reason # NULL
       /\ thrown.hint = "%chat provider openai --key"
       /\ ~sessionInitialized

\* C11: a cancellation detected during an auto-select construction.  Once
\* cancel is requested no further candidate is attempted; and the step on
\* which a cancellation checkpoint throws ends the execution with the reply
\* 'abort' and the progress report 'cancelled' (when the channel is open to
\* take a report), never with 'error'.
C11_CancelledNotFailed ==
  [][(InFlight /\ isAutoSelectMode /\ sendBuilds = 1)
       => /\ isCancelled => attempted' = attempted
          /\ thrown'.kind = "Cancelled"
               => /\ pc' = "idle"
                  /\ reply' = "abort"
                  /\ delivered'.status # "error"
                  /\ isOpen => delivered'.status = "cancelled"]_vars

\* the first candidate was tried, cancel arrived, and the execution ended
\* cancelled without trying the next one
C11_Witness ==
  /\ pc = "idle" /\ lastCall = "send" /\ isAutoSelectMode
  /\ thrown.kind = "Cancelled" /\ attempted = << CORE >>
  /\ reply = "abort" /\ delivered.status = "cancelled"

\* C12: a failure the model handle raises during streaming ends that send
\* with an error and leaves the session active with its handle; and the next
\* send, nothing having been reconfigured in between, does not construct.
C12_GenerationFailureKeepsSession ==
  [][/\ (pc = "streaming" /\ thrown'.kind = "Generation")
          => /\ reply' = "error"
             /\ sessionInitialized' /\ languageModel' # NoModel
             /\ MgrSnapshot' = MgrSnapshot
     /\ (pc = "idle" /\ thrown.kind = "Generation" /\ pc' # "idle")
          => sendBuilds' = 0]_vars

\* the pool after the manager gave back the one reference it tracks
ReleasedOnce ==
  IF activeWebLLMModelId # NULL
  THEN [pool EXCEPT ![activeWebLLMModelId] = @ - 1]
  ELSE pool

\* C13: when setProvider or setModel has returned no session is active, the
\* reference the manager tracked for the old session has been given back to
\* the pool, once, and nothing is tracked any more; and the send that
\* follows constructs a session.
C13_ReconfigureReleases ==
  /\ [][lastCall' \in {"setProvider", "setModel"}
          => /\ ~sessionInitialized' /\ languageModel' = NoModel
             /\ activeWebLLMModelId' = NULL
             /\ pool' = ReleasedOnce
             /\ needsSessionRefresh']_vars
  /\ []((InFlight /\ sendAfter \in {"setProvider", "setModel"})
          => sendBuilds = 1)

\* setProvider was called on a WebLLM session: its reference is back in the
\* pool
C13_Witness ==
  /\ pc = "idle" /\ lastCall = "setProvider"
  /\ activeProvider = WEBLLM /\ activeModel = MODEL_WEBLLM
  /\ ~sessionInitialized /\ activeWebLLMModelId = NULL
  /\ pool[MODEL_WEBLLM] = 0

\* C14: setApiKey invalidates the session and releases its reference only
\* when a session is active; when none is active the call changes nothing
\* but the pending credential: pending provider and model, active provider
\* and model, the handle and the tracked reference stay as they were.
C14_SetApiKeyOnlyIfActive ==
  [][lastCall' = "setApiKey"
       => IF sessionInitialized
          THEN /\ ~sessionInitialized' /\ languageModel' = NoModel
               /\ activeWebLLMModelId' = NULL
               /\ pool' = ReleasedOnce
          ELSE UNCHANGED << pendingProvider, pendingModel, activeProvider,
                            activeModel, activeWebLLMModelId, pool,
                            sessionInitialized, languageModel >>]_vars

\* setApiKey was called with a model chosen and no session ever built
C14_Witness ==
  /\ pc = "idle" /\ lastCall = "setApiKey"
  /\ pendingApiKey \in Keys /\ pendingModel = MODEL_X
  /\ activeProvider = NULL /\ ~sessionInitialized

\* C15: shutdown gives back the reference the manager tracks, if any, and
\* leaves no session active and nothing tracked; with nothing ever
\* constructed it releases nothing, and a second shutdown right after the
\* first releases nothing either.
C15_ShutdownIdempotent ==
  [][lastCall' = "shutdown"
       => /\ ~sessionInitialized' /\ languageModel' = NoModel
          /\ activeWebLLMModelId' = NULL
          /\ pool' = ReleasedOnce
          /\ (activeProvider = NULL \/ lastCall = "shutdown") => pool' = pool]_vars

\* shutdown was called on a WebLLM session: its reference is back in the pool
C15_Witness ==
  /\ pc = "idle" /\ lastCall = "shutdown"
  /\ activeProvider = WEBLLM /\ activeModel = MODEL_WEBLLM
  /\ ~sessionInitialized /\ activeWebLLMModelId = NULL
  /\ pool[MODEL_WEBLLM] = 0

\* C16: over every sequence of setProvider, setModel, setApiKey, send and
\* shutdown the manager releases a model id only while it holds a reference
\* to it, and once per acquisition: an id the manager tracks has a positive
\* count in the pool, a count goes down only for the tracked id, by one, and
\* the id is no longer tracked afterwards.
C16_NoOverRelease ==
  /\ [](activeWebLLMModelId # NULL => pool[activeWebLLMModelId] >= 1)
  /\ [][\A id \in PoolModelIds :
          pool'[id] < pool[id]
            => /\ activeWebLLMModelId = id
               /\ pool'[id] = pool[id] - 1
               /\ activeWebLLMModelId' = NULL]_vars

\* setApiKey released the reference of a WebLLM session
C16_Witness ==
  /\ pc = "idle" /\ lastCall = "setApiKey"
  /\ activeProvider = WEBLLM /\ activeModel = MODEL_WEBLLM
  /\ ~sessionInitialized /\ activeWebLLMModelId = NULL
  /\ pool[MODEL_WEBLLM] = 0

\* C19: the progress channel.  The frontend has one comm open exactly while
\* the channel is open, so no second comm_open is ever sent; an execution
\* that starts on an open channel keeps its comm id and only resets the
\* cancellation flag; a report sent while the channel is closed reaches
\* nobody; and a close that finds the channel closed changes nothing.
C19_ChannelLifecycle ==
  /\ [](frontendComms = IF isOpen THEN 1 ELSE 0)
  /\ [](isOpen <=> commId # NULL)
  /\ [][(pc = "idle" /\ pc' # "idle" /\ isOpen)
          => /\ isOpen' /\ commId' = commId /\ ~isCancelled'
             /\ frontendComms' = frontendComms]_vars
  /\ [][(InFlight /\ ~isOpen) => delivered' = delivered]_vars
  /\ [][(closeTimers' < closeTimers /\ ~isOpen) => UNCHANGED commVars]_vars

\* an execution started while the delayed close of the one before it was
\* still pending: the channel was open and stays the same comm
C19_Witness ==
  /\ InFlight /\ closeTimers = 1 /\ isOpen /\ commId = "progress"
  /\ frontendComms = 1 /\ ~isCancelled /\ delivered = NoReport

\* C20: a cancel message for the comm id of the open channel sets the
\* cancellation flag and aborts the kernel's controller; from then on the
\* flag stays set until the next execution resets it, and a construction
\* that comes to a checkpoint does not go on: it ends, by the cancellation
\* error unless the attempt had failed before the checkpoint was reached.
\* A message with any other comm id is not handled and changes nothing, so
\* with no channel open no message sets the flag.
C20_CancelMessage ==
  /\ [](\A id \in MsgCommIds \ {commId}, type \in MsgTypes :
          handleMessage(id, type) = [handled |-> FALSE, isCancelled |-> isCancelled])
  /\ [](commId # NULL => handleMessage(commId, "cancel").isCancelled)
  /\ [][(~isCancelled /\ isCancelled')
          => /\ commId # NULL
             /\ abortController # NULL => signalAborted']_vars
  /\ [][(isCancelled /\ ~isCancelled') => (pc = "idle" /\ pc' # "idle")]_vars
  /\ [][(isCancelled /\ pc \in {"select", "try", "creating"} /\ pc' # pc)
          => /\ pc' = "idle"
             /\ thrown'.kind \in {"Cancelled", "NoLocalProvider", "ApiKeyRequired",
                                   "CreateFailed", "AllFailed"}
             /\ thrown'.kind = "Cancelled" => reply' = "abort"]_vars

\* a cancel for the open channel stopped the construction of a session for
\* an explicitly configured provider
C20_Witness ==
  /\ pc = "idle" /\ lastCall = "send" /\ ~isAutoSelectMode
  /\ isCancelled /\ thrown.kind = "Cancelled" /\ reply = "abort"
  /\ attempted = << TRANSFORMERS >>

\* the credential a send resolved when it began
KeyAtStart ==
  IF preState.pendingApiKey # NULL THEN preState.pendingApiKey
  ELSE getApiKeyFromSettings

\* C17: a configuration call made while a send is in flight takes effect for
\* the next send.  Every send for an explicitly chosen provider, when it
\* starts to stream, runs on a session built from the provider, the model and
\* the credential that were pending when the send began.
C17_MutationTakesEffectNext ==
  [][(pc # "streaming" /\ pc' = "streaming" /\ preState.pendingProvider # NULL)
       => /\ languageModel'.provider = preState.pendingProvider
          /\ preState.pendingModel # NULL
               => languageModel'.model = preState.pendingModel
          /\ requiresApiKey(languageModel'.provider)
               => languageModel'.apiKey = KeyAtStart]_vars

\* C21: duplicate progress suppression.  Of two identical loading reports
\* in a row the second is not delivered, so the consumer gets one; a complete
\* report that follows a loading report with the same text is delivered to
\* an open channel all the same.
C21_DuplicateSuppression ==
  [][(Len(reportsEmitted') = Len(reportsEmitted) + 1 /\ reportsEmitted # << >>)
       => LET e == Last(reportsEmitted')
              before == Last(reportsEmitted)
          IN /\ (e.status = "loading" /\ before = e)
                  => reportsDelivered' = reportsDelivered
             /\ (e.status = "loading" /\ before.status = "loading"
                  /\ before.message # e.message /\ isOpen)
                  => reportsDelivered' = Append(reportsDelivered, e)
             /\ (e.status = "complete" /\ before.status = "loading"
                  /\ before.message = e.message /\ isOpen)
                  => reportsDelivered' = Append(reportsDelivered, e)]_vars

\* 'Ready' was reported twice as loading and then as complete: the consumer
\* has the loading report once and the complete report
C21_Witness ==
  /\ reportsEmitted = << [status |-> "loading", message |-> "Ready"],
                         [status |-> "loading", message |-> "Ready"],
                         [status |-> "complete", message |-> "Ready"] >>
  /\ reportsDelivered = << [status |-> "loading", message |-> "Ready"],
                           [status |-> "complete", message |-> "Ready"] >>

\* C22: every execution delivers its terminal report.  When an execution
\* ends, the report the consumer has is the complete, cancelled or error
\* report of that execution, whatever delayed closes of earlier executions
\* fired meanwhile.
C22_TerminalDelivered ==
  [][(InFlight /\ pc' = "idle")
       => delivered'.status =
            CASE reply' = "ok" -> "complete"
              [] reply' = "abort" -> "cancelled"
              [] OTHER -> "error"]_vars

\* C23: cancellation is checked at every download-progress callback.  Once
\* cancel was requested while a provider is being created, the next progress
\* callback ends the construction with the cancellation outcome, and no
\* loading report reaches the consumer any more.
C23_CancelAtProgressCallback ==
  [][(pc = "creating" /\ isCancelled /\ lastProgressMessage' # lastProgressMessage)
       => /\ delivered' = delivered \/ delivered'.status = "cancelled"
          /\ pc' = "idle" /\ thrown'.kind = "Cancelled"]_vars

\* C24: the README's auto-fallback order: built-in-ai/core if available, then
\* built-in-ai/transformers, then built-in-ai/webllm, for the initial
\* auto-selection and for the fallback after a construction failure.
ReadmeOrder == << CORE, TRANSFORMERS, WEBLLM >>

C24_ReadmeFallbackOrder ==
  /\ selected.called
       => LET supportedAt == {i \in 1..Len(ReadmeOrder) :
                                selected.results[ReadmeOrder[i]]}
          IN selected.provider # NULL
               => \E i \in supportedAt :
                    /\ selected.provider = ReadmeOrder[i]
                    /\ \A j \in supportedAt : i <= j
  /\ (fallbackCall.called /\ fallbackCall.failed \in LocalProviders)
       => LET i == indexOf(ReadmeOrder, fallbackCall.failed) + 1
          IN fallbackCall.next = IF i < Len(ReadmeOrder)
                                 THEN ReadmeOrder[i + 1] ELSE NULL

\* C25: autoSelectLocalProvider goes through the local providers in one
\* fixed order and returns the first whose support check reports supported;
\* it returns none exactly when no check reports supported.
C25_AutoSelectFirstSupported ==
  selected.called
    => LET supportedAt == {i \in 1..Len(fallbackOrder) :
                             selected.results[fallbackOrder[i]]}
       IN /\ selected.provider = NULL <=> supportedAt = {}
          /\ selected.provider # NULL
               => \E i \in supportedAt :
                    /\ selected.provider = fallbackOrder[i]
                    /\ \A j \in supportedAt : i <= j

\* WebLLM and Transformers.js are supported, the Prompt API is not
C25_Witness ==
  /\ selected.called /\ selected.provider = WEBLLM
  /\ ~selected.results[CORE] /\ selected.results[TRANSFORMERS]

\* auto-select takes a before b when these two alone are supported
Prefers(a, b) ==
  autoSelectLocalProvider([p \in LocalProviders |-> p \in {a, b}]) = a

\* C26: getNextFallbackProvider(p) returns the provider that auto-select
\* ranks immediately after p, and none when p is the last in that order.
C26_NextInSameOrder ==
  (fallbackCall.called /\ fallbackCall.failed \in LocalProviders)
    => LET p == fallbackCall.failed
           n == fallbackCall.next
       IN IF \E q \in LocalProviders \ {p} : Prefers(p, q)
          THEN /\ n \in LocalProviders \ {p}
               /\ Prefers(p, n)
               /\ \A q \in LocalProviders \ {p, n} :
                    ~(Prefers(p, q) /\ Prefers(q, n))
          ELSE n = NULL

C26_Witness ==
  /\ fallbackCall.called /\ fallbackCall.failed = WEBLLM
  /\ fallbackCall.next = TRANSFORMERS

\* C27: the support check of a local provider is memoized: its probe runs at
\* most once until clearProviderCaches, a cached result is what every later
\* call returns and no call (a provider construction included) changes it;
\* openai, anthropic and google are always reported supported.
C27_SupportMemoized ==
  /\ [](\A p \in LocalProviders : probeRuns[p] <= 1)
  /\ []((lastSupport.called /\ lastSupport.cached)
          => lastSupport.supported = lastSupport.before)
  /\ []((lastSupport.called /\ lastSupport.provider \in CloudProviders)
          => lastSupport.supported)
  /\ [][\/ providerSupportCache' = EmptyCache
        \/ \A p \in DOMAIN providerSupportCache :
             /\ p \in DOMAIN providerSupportCache'
             /\ providerSupportCache'[p] = providerSupportCache[p]]_vars

\* a second check of WebLLM, answered from the cache
C27_Witness ==
  /\ lastSupport.called /\ lastSupport.provider = WEBLLM
  /\ lastSupport.cached /\ lastSupport.supported
  /\ probeRuns[WEBLLM] = 1

\* the step is a call of op on packName
ToolCallOf(op, packName) ==
  toolCall' = [called |-> TRUE, op |-> op, packName |-> packName]

\* no entry twice
NoDuplicates(s) == \A i, j \in 1..Len(s) : s[i] = s[j] => i = j

\* C28: enabling a tool pack that is already enabled returns enabled = true,
\* the tool set the pack was enabled with and an 'already enabled' message,
\* and leaves the enabled packs and their tools as they were, each once.
C28_ReenableIdempotent ==
  [][\A packName \in PackNames :
       (ToolCallOf("enableToolPack", packName)
          /\ has(enabledToolPacks, packName))
         => /\ enableResult'.enabled
            /\ enableResult'.tools = toolPacksCache[packName]
            /\ enableResult'.tools = getWikiQueryTools
            /\ enableResult'.message = "already enabled"
            /\ enabledToolPacks' = enabledToolPacks
            /\ toolPacksCache' = toolPacksCache
            /\ NoDuplicates(enabledToolPacks')
            /\ NoDuplicates(enableResult'.tools)]_vars

C28_Witness ==
  /\ toolCall = [called |-> TRUE, op |-> "enableToolPack",
                 packName |-> WIKI_QUERY]
  /\ enableResult.called /\ enableResult.message = "already enabled"
  /\ enabledToolPacks = << WIKI_QUERY >>

\* C29: enabling a pack of unknown name returns enabled = false, no tools
\* and an 'Unknown tool pack' message, and changes neither the enabled packs
\* nor the session.
C29_UnknownPackReported ==
  [][\A packName \in PackNames \ {WIKI_QUERY} :
       ToolCallOf("enableToolPack", packName)
         => /\ enableResult' = [called |-> TRUE, enabled |-> FALSE,
                                 tools |-> << >>,
                                 message |-> "Unknown tool pack"]
            /\ enabledToolPacks' = enabledToolPacks
            /\ toolPacksCache' = toolPacksCache
            /\ kernelVars' = kernelVars]_vars

\* an unknown pack refused while wiki-query stays enabled
C29_Witness ==
  /\ toolCall = [called |-> TRUE, op |-> "enableToolPack",
                 packName |-> "unknown-pack"]
  /\ enableResult.called /\ ~enableResult.enabled
  /\ enabledToolPacks = << WIKI_QUERY >>

\* the tools of a pack, by the module that defines them
PackTools(packName) ==
  IF packName = WIKI_QUERY THEN getWikiQueryTools ELSE << >>

\* C30: a pack is enabled exactly from its enableToolPack to its
\* disableToolPack; getEnabledTools and listEnabledTools report the tools of
\* the packs enabled at the call and nothing else; disabling a pack that is
\* not enabled returns disabled = false and changes nothing.
C30_ReportsEnabledPacks ==
  [][/\ \A packName \in PackNames :
          /\ (ToolCallOf("enableToolPack", packName) /\ enableResult'.enabled)
               => /\ has(enabledToolPacks', packName)
                  /\ \A q \in PackNames \ {packName} :
                       has(enabledToolPacks', q) <=> has(enabledToolPacks, q)
          /\ ToolCallOf("disableToolPack", packName)
               => /\ ~has(enabledToolPacks', packName)
                  /\ \A q \in PackNames \ {packName} :
                       has(enabledToolPacks', q) <=> has(enabledToolPacks, q)
                  /\ disableResult'.disabled <=> has(enabledToolPacks, packName)
                  /\ ~has(enabledToolPacks, packName)
                       => /\ enabledToolPacks' = enabledToolPacks
                          /\ toolPacksCache' = toolPacksCache
     /\ ToolCallOf("getEnabledTools", NULL)
          => /\ enabledToolPacks' = enabledToolPacks
             /\ \A t \in {enabledTools'.tools[i] :
                             i \in 1..Len(enabledTools'.tools)} :
                  \E packName \in PackNames :
                    has(enabledToolPacks, packName) /\ has(PackTools(packName), t)
             /\ \A packName \in PackNames :
                  has(enabledToolPacks, packName)
                    => \A i \in 1..Len(PackTools(packName)) :
                         has(enabledTools'.tools, PackTools(packName)[i])
     /\ ToolCallOf("listEnabledTools", NULL)
          => /\ enabledToolPacks' = enabledToolPacks
             /\ Len(listed'.packs) = Len(enabledToolPacks)
             /\ \A i \in 1..Len(listed'.packs) :
                  /\ listed'.packs[i].name = enabledToolPacks[i]
                  /\ listed'.packs[i].tools = PackTools(enabledToolPacks[i])
             /\ (enabledToolPacks = << >>) => listed'.total = 0
             /\ (enabledToolPacks = << WIKI_QUERY >>)
                  => listed'.total = Len(getWikiQueryTools)]_vars

\* nothing is reported after the pack was disabled
C30_Witness ==
  /\ toolCall = [called |-> TRUE, op |-> "getEnabledTools", packName |-> NULL]
  /\ enabledTools.called /\ enabledTools.tools = << >>
  /\ disableResult.called /\ disableResult.disabled
  /\ listed.called /\ listed.total = Len(getWikiQueryTools)
  /\ enabledToolPacks = << >>

\* the contents of the chunks one after another
RECURSIVE Concatenation(_)
Concatenation(cs) ==
  IF cs = << >> THEN << >> ELSE Head(cs).content \o Concatenation(Tail(cs))

\* C39: for a positive chunkSize the chunks returned by chunkContent are
\* numbered 0..n-1 with n = ceil(length / chunkSize), each starts where the
\* one before it ends, none is longer than chunkSize, and put together they
\* are the text.
C39_ChunksPartitionText ==
  (chunkPc = "done" /\ chunkSize > 0)
    => /\ Len(chunks) =
            (Len(wikitext) * Half + chunkSize - 1) \div chunkSize
       /\ \A k \in 1..Len(chunks) :
            /\ chunks[k].index = k - 1
            /\ chunks[k].startChar =
                 (IF k = 1 THEN 0 ELSE chunks[k - 1].endChar)
            /\ Len(chunks[k].content) * Half <= chunkSize
       /\ Concatenation(chunks) = wikitext

\* C40: get_chunked_content terminates for every chunkSize its schema
\* accepts: each iteration of the loop of chunkContent brings i nearer to
\* the end of the text.
C40_ChunkLoopTerminates ==
  [][(chunkPc = "loop" /\ chunks' # chunks)
       => Len(wikitext) * Half - chunkI' < Len(wikitext) * Half - chunkI]_vars

\* the lines of str that start with %chat, trimmed, in order
MagicLinesOf(str) ==
  LET magic == SelectSeq(split(str), LAMBDA l : startsWith(trim(l), MAGIC))
  IN [i \in 1..Len(magic) |-> trim(magic[i])]

\* C38: no line starting with %chat (so no '%chat key <secret>' line and no
\* secret) is part of the prompt passed to send, and when the prompt is
\* passed every %chat command of the cell has been applied, in order.
C38_MagicLinesNotInPrompt ==
  promptSent.called
    => /\ \A i \in 1..Len(split(promptSent.prompt)) :
            ~startsWith(trim(split(promptSent.prompt)[i]), MAGIC)
       /\ \A i \in 1..Len(promptSent.prompt) : promptSent.prompt[i] # "k1"
       /\ magicApplied = MagicLinesOf(cellCode)
       /\ Len(magicResults) = Len(MagicLinesOf(cellCode))
       /\ (\E i \in 1..Len(cellCode) : cellCode[i] = "k1")
            => pendingApiKey = "k1"

\* a cell with a key command and a prompt, after a cell with an indented
\* model command
C38_Witness ==
  /\ cellPc = "sent"
  /\ promptSent.prompt = << "hi" >>
  /\ cellCode = << MAGIC, SP, "key", SP, "k1", NL, "hi" >>
  /\ magicApplied = << << MAGIC, SP, "key", SP, "k1" >> >>
  /\ pendingApiKey = "k1" /\ pendingModel = MODEL_X

\* C31: once an execution has settled, a session marked active whose handle
\* came from the shared pool still holds the pool reference of its model.
C31_ActiveHoldsReference ==
  (pc = "idle" /\ sessionInitialized /\ languageModel.provider = WEBLLM)
    => /\ activeWebLLMModelId = languageModel.model
       /\ pool[languageModel.model] > 0

\* C32: the session is marked active exactly when a model handle is present,
\* a pool model id is tracked only while the session is marked active, and
\* no send fails with 'Language model not initialized'.
C32_ActiveIffHandle ==
  /\ sessionInitialized <=> languageModel # NoModel
  /\ activeWebLLMModelId # NULL => sessionInitialized
  /\ thrown.kind # "NotInitialized"

\* setModel on an active WebLLM session: marker, handle and tracked id gone
C32_Witness ==
  /\ lastCall = "setModel" /\ activeProvider = WEBLLM
  /\ ~sessionInitialized /\ languageModel = NoModel
  /\ activeWebLLMModelId = NULL

\* C33: while an execution is in flight the progress channel is open and has
\* its comm id, whenever the execution began.
C33_ChannelOpenInFlight ==
  InFlight => (isOpen /\ commId # NULL)

\* C34: every execution starts with a token that is not cancelled and with
\* a new abort controller, also after a cancel that arrived while no
\* execution was in flight.
C34_FreshToken ==
  [][(tokenPc = "idle" /\ tokenPc' = "running")
       => /\ ~isCancelled'
          /\ abortController' = "live" /\ ~signalAborted']_vars

\* an execution begun inside the close delay of the one before, after a
\* cancel had arrived
C34_Witness ==
  /\ tokenPc = "running" /\ cancelledBefore
  /\ closeTimers > 0 /\ isOpen
  /\ ~isCancelled /\ abortController = "live" /\ ~signalAborted

\* C35: after a kernel interrupt received during the construction of a
\* session, the construction commits nothing: when createProvider returns
\* (with an instance of the pool), the session is left as it was and the
\* execution ends with status 'abort'.
C35_InterruptStopsConstruction ==
  [][(pc = "creating" /\ signalAborted /\ abortController = NULL
        /\ pool' # pool)
       => /\ sessionInitialized' = sessionInitialized
          /\ languageModel' = languageModel
          /\ activeProvider' = activeProvider /\ activeModel' = activeModel
          /\ pc' = "idle" /\ reply' = "abort"]_vars

\* C36: once a shutdown request has been handled and the send that was in
\* flight at that moment has settled, no session is marked active and the
\* manager holds no pool reference.
C36_ShutdownLeavesNothing ==
  (pc = "idle" /\ lastCall = "shutdown")
    => /\ ~sessionInitialized /\ languageModel = NoModel
       /\ activeWebLLMModelId = NULL
       /\ \A m \in DOMAIN pool : pool[m] = 0

\* createSession has not returned or thrown yet
Constructing == pc \in {"select", "try", "creating"}

\* C37: auto-select construction terminates: the fallback loop attempts at
\* most three providers and none twice, a construction that is under way
\* comes to an end, and unless it was cancelled it ends with an active
\* session on the provider attempted last or with the aggregate error.
C37_FallbackLoopTerminates ==
  /\ [][(autoMode /\ attempted' # attempted)
          => /\ Len(attempted') <= Len(fallbackOrder)
             /\ NoDuplicates(attempted')]_vars
  /\ [][(autoMode /\ attempted # << >> /\ Constructing /\ ~Constructing'
           /\ ~isCancelled /\ ~signalAborted)
          => \/ /\ sessionInitialized' /\ languageModel' # NoModel
                /\ activeProvider' = Last(attempted')
             \/ /\ thrown'.kind = "AllFailed"
                /\ Len(thrown'.errors) = Len(attempted')]_vars
  /\ (autoMode /\ Constructing) ~> ~Constructing

\* the loop has gone through all three providers and thrown the aggregate
\* error
C37_Witness ==
  /\ pc = "idle" /\ thrown.kind = "AllFailed"
  /\ attempted = fallbackOrder

C10_ExplicitNoFallback ==
  /\ []((getProviderToUse # NULL /\ InFlight /\ sendBuilds = 1)
          => /\ Len(attempted) <= 1
             /\ \A i \in 1..Len(attempted) : attempted[i] = getProviderToUse)
  /\ [][(getProviderToUse # NULL /\ pc = "creating")
          => /\ pc' # "try"
             /\ (pc' = "idle" /\ thrown'.name = "Error")
                  => /\ reply' = "error"
                     /\ thrown'.kind = "CreateFailed"
                     /\ thrown'.provider = getProviderToUse
                     /\ ~sessionInitialized' = ~sessionInitialized]_vars

\* the explicitly configured Transformers.js failed to construct and the send ended
\* with that error
C10_Witness ==
  /\ pc = "idle" /\ lastCall = "send" /\ getProviderToUse = TRANSFORMERS
  /\ thrown.kind = "CreateFailed" /\ thrown.provider = TRANSFORMERS
  /\ attempted = << TRANSFORMERS >>

====
